---- MODULE Spec2Model ----
(***************************************************************************)
(* A model of the xyzs_py toolkit: the SQLAlchemy session context          *)
(* managers, the database factories with their lazily invoked             *)
(* registration listeners, the XCache factory and the XCache Redis client. *)
(* Each subsystem has its own variables, its own actions and its own       *)
(* specification; Spec is their interleaving.                              *)
(***************************************************************************)
EXTENDS Integers, Sequences, FiniteSets, TLC

VARIABLES
    \* ---- session context managers (XDBConnect / XAsyncDBConnect / DBSession)
    sessPc,        \* "idle" | "body" | "done": where the with-statement is
    sessMgr,       \* which get_session is running
    sessLog,       \* the calls made on the session object, in order
    sessThrown,    \* what the with-body raised (NoExc: it finished normally)
    sessCommit,    \* what commit() raised (NoExc: it returned, or was not called)
    sessOut,       \* what the with-statement propagated to its caller
    \* ---- XDBFactory
    dbBundles,     \* XDBFactory._bundles: key -> DBBundle
    mainListener,  \* XDBFactory.__register_main_db_Listener
    slaveListener, \* XDBFactory.__register_slave_DB_Listener
    dbCall,        \* the last XDBFactory call: its arguments and its outcome
    \* ---- XAsyncDBFactory
    afBundles,     \* XAsyncDBFactory._bundles: key -> XAsyncDBManager
    afMain,        \* XAsyncDBFactory.__register_main_db_Listener
    afSlave,       \* XAsyncDBFactory.__register_slave_DB_Listener
    afLock,        \* XAsyncDBFactory._lock, an RLock: its owner and its depth
    afPc,          \* per thread: where its call is
    afCall,        \* per thread: its call, its arguments and its outcome
    \* ---- XCacheFactory
    cfInstances,   \* XCacheFactory._instances: name -> XCache
    cfCreated,     \* how many XCache objects were constructed so far
    cfEnvHost,     \* os.environ["redis.host"], None if unset
    cfHanded,      \* history: per name, the instances create / get returned
                   \* since the last delete of the name
    cfCall,        \* the last XCacheFactory call and its outcome
    \* ---- XCache and the Redis server behind it
    xcClient,      \* XCache._client: None, or the redis.Redis object
    rdStore,       \* the server's keys: key -> the bytes stored and the PX given
    xcLastSet,     \* history: key -> the value of the last set that succeeded,
                   \* while the key is neither expired, deleted nor overwritten
    xcCall,        \* the last XCache call, what Redis answered and its outcome
    \* ---- XConfig
    xfDefault,     \* XConfig.default_config (PyNone before init)
    xfData,        \* XConfig.config_data (PyNone before init)
    xfCall,        \* the last XConfig call and its outcome
    \* ---- ConfigManager, the file system and the process environment
    cmSnapshot,    \* ConfigManager._snapshot (PyNone: none yet)
    cmLoaded,      \* ConfigManager._loaded
    cmCliFiles,    \* ConfigManager._cli_files
    osEnviron,     \* os.environ: variable -> value
    cmFs,          \* the files on disk: path -> what the file holds
    cmCall         \* the last ConfigManager call and its outcome

sessVars == <<sessPc, sessMgr, sessLog, sessThrown, sessCommit, sessOut>>

dbVars == <<dbBundles, mainListener, slaveListener, dbCall>>

afVars == <<afBundles, afMain, afSlave, afLock, afPc, afCall>>

cfVars == <<cfInstances, cfCreated, cfEnvHost, cfHanded, cfCall>>

xcVars == <<xcClient, rdStore, xcLastSet, xcCall>>

xfVars == <<xfDefault, xfData, xfCall>>

cmVars == <<cmSnapshot, cmLoaded, cmCliFiles, osEnviron, cmFs, cmCall>>

\* what the actions of one subsystem leave alone
notSessVars == <<dbVars, afVars, cfVars, xcVars, xfVars, cmVars>>

notDbVars == <<sessVars, afVars, cfVars, xcVars, xfVars, cmVars>>

notAfVars == <<sessVars, dbVars, cfVars, xcVars, xfVars, cmVars>>

notCfVars == <<sessVars, dbVars, afVars, xcVars, xfVars, cmVars>>

notXcVars == <<sessVars, dbVars, afVars, cfVars, xfVars, cmVars>>

notXfVars == <<sessVars, dbVars, afVars, cfVars, xcVars, cmVars>>

notCmVars == <<sessVars, dbVars, afVars, cfVars, xcVars, xfVars>>

vars == <<sessPc, sessMgr, sessLog, sessThrown, sessCommit, sessOut,
          dbBundles, mainListener, slaveListener, dbCall,
          afBundles, afMain, afSlave, afLock, afPc, afCall,
          cfInstances, cfCreated, cfEnvHost, cfHanded, cfCall,
          xcClient, rdStore, xcLastSet, xcCall,
          xfDefault, xfData, xfCall,
          cmSnapshot, cmLoaded, cmCliFiles, osEnviron, cmFs, cmCall>>

(***************************************************************************)
(* Exceptions.  kind "Exception" is caught by `except Exception`; kind     *)
(* "BaseException" (KeyboardInterrupt, GeneratorExit, CancelledError) is   *)
(* not.                                                                    *)
(***************************************************************************)
NoExc == [id |-> "none", kind |-> "none"]

Exc(i, k) == [id |-> i, kind |-> k]

IsException(e) == e.kind = "Exception"

\* the exceptions a with-body or a commit can raise
Raisable == {Exc("E1", "Exception"), Exc("E2", "Exception"),
             Exc("B1", "BaseException")}

\* ======================================================================
\* Session context managers
\* ======================================================================

SessionManagers == {"XDBConnect", "XAsyncDBConnect", "DBSession"}

\* what a with-body does with the session before it finishes
BodyOps == {"add", "execute"}

\* the longest with-body modelled
MaxBodyOps == 2

\* get_session_exit with an except clause that rolls back and does not
\* re-raise
get_session_exit_swallow(log, thrown, commitExc) ==
    LET afterTry ==
            IF thrown = NoExc
            THEN [log |-> Append(log, "commit"), exc |-> commitExc]
            ELSE [log |-> log, exc |-> thrown]
        afterExcept ==
            IF IsException(afterTry.exc)
            THEN [log |-> Append(afterTry.log, "rollback"), exc |-> NoExc]
            ELSE afterTry
    IN  [log |-> Append(afterExcept.log, "close"), exc |-> afterExcept.exc]

(***************************************************************************)
(* The part of get_session after the yield, the same in the three          *)
(* managers:                                                               *)
(*     try:     yield session; session.commit()                            *)
(*     except Exception: session.rollback(); raise                         *)
(*     finally: session.close()                                            *)
(* log: the calls so far; thrown: what the body raised at the yield;       *)
(* commitExc: what commit() raises if it is called.                        *)
(***************************************************************************)
get_session_exit(log, thrown, commitExc) ==
    LET afterTry ==
            IF thrown = NoExc
            THEN [log |-> Append(log, "commit"), exc |-> commitExc]
            ELSE [log |-> log, exc |-> thrown]
        afterExcept ==
            IF IsException(afterTry.exc)
            THEN [log |-> Append(afterTry.log, "rollback"), exc |-> afterTry.exc]
            ELSE afterTry
    IN  [log |-> Append(afterExcept.log, "close"), exc |-> afterExcept.exc]

InitSession ==
    /\ sessPc = "idle"
    /\ sessMgr = "XDBConnect"
    /\ sessLog = <<>>
    /\ sessThrown = NoExc
    /\ sessCommit = NoExc
    /\ sessOut = NoExc

\* `with db.get_session() as s:` a new session is created and yielded
SessionEnter(m) ==
    /\ sessPc \in {"idle", "done"}
    /\ sessPc' = "body"
    /\ sessMgr' = m
    /\ sessLog' = <<>>
    /\ sessThrown' = NoExc
    /\ sessCommit' = NoExc
    /\ sessOut' = NoExc
    /\ UNCHANGED notSessVars

\* the with-body uses the session
SessionBodyOp(op) ==
    /\ sessPc = "body"
    /\ Len(sessLog) < MaxBodyOps
    /\ sessLog' = Append(sessLog, op)
    /\ UNCHANGED <<sessPc, sessMgr, sessThrown, sessCommit, sessOut>>
    /\ UNCHANGED notSessVars

\* the with-body finishes normally: commit (which may raise), then the
\* except and finally clauses
SessionBodyReturns(commitExc) ==
    /\ sessPc = "body"
    /\ LET r == get_session_exit(sessLog, NoExc, commitExc)
       IN  /\ sessLog' = r.log
           /\ sessOut' = r.exc
    /\ sessThrown' = NoExc
    /\ sessCommit' = commitExc
    /\ sessPc' = "done"
    /\ UNCHANGED sessMgr
    /\ UNCHANGED notSessVars

\* the with-body raises e, which is thrown into the generator at the yield
SessionBodyRaises(e) ==
    /\ sessPc = "body"
    /\ LET r == get_session_exit(sessLog, e, NoExc)
       IN  /\ sessLog' = r.log
           /\ sessOut' = r.exc
    /\ sessThrown' = e
    /\ sessCommit' = NoExc
    /\ sessPc' = "done"
    /\ UNCHANGED sessMgr
    /\ UNCHANGED notSessVars

NextSession ==
    \/ \E m \in SessionManagers : SessionEnter(m)
    \/ \E op \in BodyOps : SessionBodyOp(op)
    \/ \E c \in Raisable \cup {NoExc} : SessionBodyReturns(c)
    \/ \E e \in Raisable : SessionBodyRaises(e)

\* ======================================================================
\* XDBFactory
\* ======================================================================

None == "None"

\* XDBFactory.__MAIN_DB_KEY
MAIN_DB_KEY == "main"

DbKeys == {MAIN_DB_KEY, "slave"}

\* the XDBConnect objects and the XAsyncDBConnect objects callers pass
WriteConnects == {"w2"}

ReadConnects == {"r1"}

AsyncConnects == {"a1"}

\* the XDBConnect the listeners pass as write_connect
ListenerWrite == "w1"

\* the listener objects callers inject with register_main_db and with
\* register_slave_db
MainListeners == {"Lmain"}

SlaveListeners == {"Lslave"}

\* what a listener does when it is invoked with a key: register a sync and
\* an async pair under the key, register an async pair only, register
\* nothing, or raise
ListenerBehaviours == {"both", "async", "nothing", "raise"}

\* Manager objects are told apart by id.  A new object differs from every
\* live object: it gets an id that the manager it replaces does not have
\* (managers of different keys or kinds sit in different places of the
\* registry and are never compared).
ManagerIds == {"m1", "m2"}

NoManager == [id |-> None, write |-> None, read |-> None]

\* DBBundle()
EmptyBundle == [sync |-> NoManager, async_ |-> NoManager]

FreshId(used) == CHOOSE i \in ManagerIds : i \notin used

\* XDBManager(write_connect=w, read_connect=r): a new object
NewManager(used, w, r) == [id |-> FreshId(used), write |-> w, read |-> r]

\* cls._bundles[db_name] = bundle
Put(b, k, bundle) ==
    [x \in DOMAIN b \cup {k} |-> IF x = k THEN bundle ELSE b[x]]

\* register that overwrites whatever the overwrite flag says
XDBFactory_register_always(b, db_name, w, r, aw, ar, overwrite) ==
    IF ~ ((w # None /\ r # None) \/ (aw # None /\ ar # None))
    THEN [bundles |-> b, raised |-> "ValueError"]
    ELSE
    LET existing == db_name \in DOMAIN b
        bundle0  == IF existing THEN b[db_name] ELSE EmptyBundle
        live(bundle) == IF existing THEN Put(b, db_name, bundle) ELSE b
        doSync   == w # None \/ r # None
        bundle1  == IF doSync
                    THEN [bundle0 EXCEPT !.sync = NewManager({bundle0.sync.id}, w, r)]
                    ELSE bundle0
        doAsync  == aw # None \/ ar # None
        bundle2  == IF doAsync
                    THEN [bundle1 EXCEPT !.async_ =
                            NewManager({bundle1.async_.id}, aw, ar)]
                    ELSE bundle1
    IN  IF doSync /\ ~ (w # None /\ r # None)
        THEN [bundles |-> b, raised |-> "ValueError"]
        ELSE IF doAsync /\ ~ (aw # None /\ ar # None)
        THEN [bundles |-> live(bundle1), raised |-> "ValueError"]
        ELSE [bundles |-> Put(b, db_name, bundle2), raised |-> "none"]

(***************************************************************************)
(* XDBFactory.register.  The bundle of a registered key is the live object *)
(* of the registry, so what register assigns to it before an early return  *)
(* or a raise stays; the bundle of a new key is stored by the last line    *)
(* only.                                                                   *)
(***************************************************************************)
XDBFactory_register(b, db_name, w, r, aw, ar, overwrite) ==
    IF ~ ((w # None /\ r # None) \/ (aw # None /\ ar # None))
    THEN [bundles |-> b, raised |-> "ValueError"]
    ELSE
    LET existing == db_name \in DOMAIN b
        bundle0  == IF existing THEN b[db_name] ELSE EmptyBundle
        live(bundle) == IF existing THEN Put(b, db_name, bundle) ELSE b
        doSync   == w # None \/ r # None
        bundle1  == IF doSync
                    THEN [bundle0 EXCEPT !.sync = NewManager({bundle0.sync.id}, w, r)]
                    ELSE bundle0
        doAsync  == aw # None \/ ar # None
        bundle2  == IF doAsync
                    THEN [bundle1 EXCEPT !.async_ =
                            NewManager({bundle1.async_.id}, aw, ar)]
                    ELSE bundle1
    IN  IF doSync /\ ~ (w # None /\ r # None)
        THEN [bundles |-> b, raised |-> "ValueError"]
        ELSE IF doSync /\ bundle0.sync # NoManager /\ ~ overwrite
        THEN [bundles |-> b, raised |-> "none"]
        ELSE IF doAsync /\ ~ (aw # None /\ ar # None)
        THEN [bundles |-> live(bundle1), raised |-> "ValueError"]
        ELSE IF doAsync /\ bundle1.async_ # NoManager /\ ~ overwrite
        THEN [bundles |-> live(bundle1), raised |-> "none"]
        ELSE IF bundle2.sync = NoManager /\ bundle2.async_ = NoManager
        THEN [bundles |-> live(bundle2), raised |-> "ValueError"]
        ELSE [bundles |-> Put(b, db_name, bundle2), raised |-> "none"]

\* the listener get_sync_db / get_async_db invokes for db_name, None if none
select_listener(b, db_name, mainL, slaveL) ==
    IF db_name \notin DOMAIN b
    THEN IF db_name = MAIN_DB_KEY /\ mainL # None THEN mainL
         ELSE IF slaveL # None THEN slaveL
         ELSE None
    ELSE None

\* what the invoked listener does to the registry: it is called with the
\* requested key and registers under it
run_listener(b, arg, beh) ==
    CASE beh = "both"    -> XDBFactory_register(b, arg, ListenerWrite, "r1", "a1", "a1", FALSE)
      [] beh = "async"   -> XDBFactory_register(b, arg, None, None, "a1", "a1", FALSE)
      [] beh = "nothing" -> [bundles |-> b, raised |-> "none"]
      [] beh = "raise"   -> [bundles |-> b, raised |-> "ListenerError"]

\* the sync or async part of a bundle
PartOf(bundle, want) == IF want = "sync" THEN bundle.sync ELSE bundle.async_

\* get that invokes the listener whether or not the key is registered
XDBFactory_get_db_eager(b, db_name, required, want, mainL, slaveL, beh) ==
    LET l   == IF db_name = MAIN_DB_KEY /\ mainL # None THEN mainL
               ELSE IF slaveL # None THEN slaveL
               ELSE None
        ran == IF l = None THEN [bundles |-> b, raised |-> "none"]
               ELSE run_listener(b, db_name, beh)
        inv == IF l = None THEN <<>> ELSE <<[listener |-> l, arg |-> db_name]>>
        b2  == ran.bundles
        found == IF db_name \in DOMAIN b2 THEN PartOf(b2[db_name], want)
                 ELSE NoManager
    IN  IF ran.raised # "none"
        THEN [bundles |-> b2, invoked |-> inv, result |-> NoManager,
              raised |-> ran.raised]
        ELSE IF found = NoManager
        THEN [bundles |-> b2, invoked |-> inv, result |-> NoManager,
              raised |-> IF required THEN "ValueError" ELSE "none"]
        ELSE [bundles |-> b2, invoked |-> inv, result |-> found,
              raised |-> "none"]

(***************************************************************************)
(* XDBFactory.get_sync_db (want = "sync") and get_async_db (want =         *)
(* "async"), the whole body under the lock: the listener, if the key is    *)
(* absent and there is one, and then the lookup.                           *)
(***************************************************************************)
XDBFactory_get_db(b, db_name, required, want, mainL, slaveL, beh) ==
    LET l   == select_listener(b, db_name, mainL, slaveL)
        ran == IF l = None THEN [bundles |-> b, raised |-> "none"]
               ELSE run_listener(b, db_name, beh)
        inv == IF l = None THEN <<>> ELSE <<[listener |-> l, arg |-> db_name]>>
        b2  == ran.bundles
        found == IF db_name \in DOMAIN b2 THEN PartOf(b2[db_name], want)
                 ELSE NoManager
    IN  IF ran.raised # "none"
        THEN [bundles |-> b2, invoked |-> inv, result |-> NoManager,
              raised |-> ran.raised]
        ELSE IF found = NoManager
        THEN [bundles |-> b2, invoked |-> inv, result |-> NoManager,
              raised |-> IF required THEN "ValueError" ELSE "none"]
        ELSE [bundles |-> b2, invoked |-> inv, result |-> found,
              raised |-> "none"]

\* a call record: the call, its arguments and its outcome
DbCall(op, key, flag, args, result, raised, invoked) ==
    [op |-> op, key |-> key, flag |-> flag, args |-> args,
     result |-> result, raised |-> raised, invoked |-> invoked]

NoArgs == <<None, None, None, None>>

InitDB ==
    /\ dbBundles = << >>
    /\ mainListener = None
    /\ slaveListener = None
    /\ dbCall = DbCall("none", None, FALSE, NoArgs, NoManager, "none", <<>>)

\* XDBFactory.register_main_db(l)
RegisterMainDb(l) ==
    /\ mainListener' = l
    /\ dbCall' = DbCall("register_main_db", None, FALSE, NoArgs,
                        NoManager, "none", <<>>)
    /\ UNCHANGED <<dbBundles, slaveListener>>
    /\ UNCHANGED notDbVars

\* XDBFactory.register_slave_db(l)
RegisterSlaveDb(l) ==
    /\ slaveListener' = l
    /\ dbCall' = DbCall("register_slave_db", None, FALSE, NoArgs,
                        NoManager, "none", <<>>)
    /\ UNCHANGED <<dbBundles, mainListener>>
    /\ UNCHANGED notDbVars

\* XDBFactory.register(db_name, w, r, aw, ar, overwrite)
Register(db_name, w, r, aw, ar, overwrite) ==
    /\ LET res == XDBFactory_register(dbBundles, db_name, w, r, aw, ar, overwrite)
       IN  /\ dbBundles' = res.bundles
           /\ dbCall' = DbCall("register", db_name, overwrite, <<w, r, aw, ar>>,
                               NoManager, res.raised, <<>>)
    /\ UNCHANGED <<mainListener, slaveListener>>
    /\ UNCHANGED notDbVars

\* XDBFactory.get_sync_db(db_name, required=required); beh is what the
\* listener does if it is invoked
GetSyncDb(db_name, required, beh) ==
    /\ LET res == XDBFactory_get_db(dbBundles, db_name, required, "sync",
                         mainListener, slaveListener, beh)
       IN  /\ dbBundles' = res.bundles
           /\ dbCall' = DbCall("get_sync_db", db_name, required, NoArgs,
                               res.result, res.raised, res.invoked)
    /\ UNCHANGED <<mainListener, slaveListener>>
    /\ UNCHANGED notDbVars

\* XDBFactory.get_async_db(db_name, required=required)
GetAsyncDb(db_name, required, beh) ==
    /\ LET res == XDBFactory_get_db(dbBundles, db_name, required, "async",
                         mainListener, slaveListener, beh)
       IN  /\ dbBundles' = res.bundles
           /\ dbCall' = DbCall("get_async_db", db_name, required, NoArgs,
                               res.result, res.raised, res.invoked)
    /\ UNCHANGED <<mainListener, slaveListener>>
    /\ UNCHANGED notDbVars

\* XDBFactory.unregister(key)
Unregister(key) ==
    /\ dbBundles' = [x \in DOMAIN dbBundles \ {key} |-> dbBundles[x]]
    /\ dbCall' = DbCall("unregister", key, FALSE, NoArgs, NoManager,
                        "none", <<>>)
    /\ UNCHANGED <<mainListener, slaveListener>>
    /\ UNCHANGED notDbVars

NextDB ==
    \/ \E l \in MainListeners : RegisterMainDb(l)
    \/ \E l \in SlaveListeners : RegisterSlaveDb(l)
    \/ \E k \in DbKeys, w \in WriteConnects \cup {None},
          r \in ReadConnects \cup {None}, aw, ar \in AsyncConnects \cup {None}, ow \in BOOLEAN :
            Register(k, w, r, aw, ar, ow)
    \/ \E k \in DbKeys, req \in BOOLEAN, beh \in ListenerBehaviours :
            GetSyncDb(k, req, beh)
    \/ \E k \in DbKeys, req \in BOOLEAN, beh \in ListenerBehaviours :
            GetAsyncDb(k, req, beh)
    \/ \E k \in DbKeys : Unregister(k)

\* ======================================================================
\* XAsyncDBFactory
\* ======================================================================

\* the threads that call the factory (each runs its coroutines one call at
\* a time)
Threads == {"t1", "t2"}

\* threading.RLock: free, or owned by a thread that acquired it depth times
FreeLock == [owner |-> None, depth |-> 0]

CanAcquire(lock, t) == lock.owner \in {None, t}

Acquire(lock, t) == [owner |-> t, depth |-> lock.depth + 1]

Release(lock) ==
    IF lock.depth = 1 THEN FreeLock
    ELSE [owner |-> lock.owner, depth |-> lock.depth - 1]

\* a new XAsyncDBManager: an object that differs from the one it replaces
NewAsyncManager(b, key, w, r) ==
    [id |-> FreshId(IF key \in DOMAIN b THEN {b[key].id} ELSE {}),
     write |-> w, read |-> r]

\* the first with-block of get_db: the listener to invoke, None if none
af_select_listener(b, db_name, mainL, slaveL) ==
    IF db_name \notin DOMAIN b
    THEN IF db_name = MAIN_DB_KEY /\ mainL # None THEN mainL
         ELSE IF slaveL # None THEN slaveL
         ELSE None
    ELSE None

\* the lookup of a get_db that ignores required
af_lookup_lenient(b, db_name, required) ==
    [result |-> IF db_name \in DOMAIN b THEN b[db_name] ELSE NoManager,
     raised |-> "none"]

\* get_db that leaves its first with-block only after the listener: the
\* lock stays held while a listener runs
af_leave_check_holding(lock, listener) ==
    IF listener = None THEN Release(lock) ELSE lock

\* the lock as the first with-block of get_db leaves it, whatever listener
\* it selected
af_leave_check(lock, listener) == Release(lock)

\* the second with-block of get_db: what it returns or raises
af_lookup(b, db_name, required) ==
    LET bundle == IF db_name \in DOMAIN b THEN b[db_name] ELSE NoManager
    IN  IF bundle = NoManager /\ required
        THEN [result |-> NoManager, raised |-> "ValueError"]
        ELSE [result |-> bundle, raised |-> "none"]

AfCall(op, key, flag, listener, result, raised) ==
    [op |-> op, key |-> key, flag |-> flag, listener |-> listener,
     result |-> result, raised |-> raised]

AfNoCall == AfCall("none", None, FALSE, None, NoManager, "none")

InitAF ==
    /\ afBundles = << >>
    /\ afMain = None
    /\ afSlave = None
    /\ afLock = FreeLock
    /\ afPc = [t \in Threads |-> "idle"]
    /\ afCall = [t \in Threads |-> AfNoCall]

AfIdle(t) == afPc[t] \in {"idle", "done"}

\* XAsyncDBFactory.register_main_db(l): an assignment
AfRegisterMainDb(t, l) ==
    /\ AfIdle(t)
    /\ afMain' = l
    /\ afPc' = [afPc EXCEPT ![t] = "done"]
    /\ afCall' = [afCall EXCEPT ![t] =
                    AfCall("register_main_db", None, FALSE, None, NoManager, "none")]
    /\ UNCHANGED <<afBundles, afSlave, afLock>>
    /\ UNCHANGED notAfVars

\* XAsyncDBFactory.register_slave_db(l): an assignment
AfRegisterSlaveDb(t, l) ==
    /\ AfIdle(t)
    /\ afSlave' = l
    /\ afPc' = [afPc EXCEPT ![t] = "done"]
    /\ afCall' = [afCall EXCEPT ![t] =
                    AfCall("register_slave_db", None, FALSE, None, NoManager, "none")]
    /\ UNCHANGED <<afBundles, afMain, afLock>>
    /\ UNCHANGED notAfVars

\* XAsyncDBFactory.register(db_name, w, r) up to its with-statement: a
\* missing connect raises ValueError
AfRegisterCall(t, db_name, w, r) ==
    /\ AfIdle(t)
    /\ IF w = None \/ r = None
       THEN /\ afPc' = [afPc EXCEPT ![t] = "done"]
            /\ afCall' = [afCall EXCEPT ![t] =
                    AfCall("register", db_name, FALSE, None, NoManager, "ValueError")]
       ELSE /\ afPc' = [afPc EXCEPT ![t] = "r_lock"]
            /\ afCall' = [afCall EXCEPT ![t] =
                    AfCall("register", db_name, FALSE, None,
                           [id |-> None, write |-> w, read |-> r], "none")]
    /\ UNCHANGED <<afBundles, afMain, afSlave, afLock>>
    /\ UNCHANGED notAfVars

\* register enters `with cls._lock`
AfRegisterAcquire(t) ==
    /\ afPc[t] = "r_lock"
    /\ CanAcquire(afLock, t)
    /\ afLock' = Acquire(afLock, t)
    /\ afPc' = [afPc EXCEPT ![t] = "r_store"]
    /\ UNCHANGED <<afBundles, afMain, afSlave, afCall>>
    /\ UNCHANGED notAfVars

\* register stores the new manager and leaves the with-block
AfRegisterStore(t) ==
    /\ afPc[t] = "r_store"
    /\ LET c == afCall[t]
           m == NewAsyncManager(afBundles, c.key, c.result.write, c.result.read)
       IN  /\ afBundles' = Put(afBundles, c.key, m)
           /\ afCall' = [afCall EXCEPT ![t].result = NoManager]
    /\ afLock' = Release(afLock)
    /\ afPc' = [afPc EXCEPT ![t] = "done"]
    /\ UNCHANGED <<afMain, afSlave>>
    /\ UNCHANGED notAfVars

\* await XAsyncDBFactory.get_db(db_name, required=required) is called
AfGetDbCall(t, db_name, required) ==
    /\ AfIdle(t)
    /\ afPc' = [afPc EXCEPT ![t] = "g_lock1"]
    /\ afCall' = [afCall EXCEPT ![t] =
                    AfCall("get_db", db_name, required, None, NoManager, "none")]
    /\ UNCHANGED <<afBundles, afMain, afSlave, afLock>>
    /\ UNCHANGED notAfVars

\* get_db enters its first `with cls._lock`
AfGetDbAcquire1(t) ==
    /\ afPc[t] = "g_lock1"
    /\ CanAcquire(afLock, t)
    /\ afLock' = Acquire(afLock, t)
    /\ afPc' = [afPc EXCEPT ![t] = "g_check"]
    /\ UNCHANGED <<afBundles, afMain, afSlave, afCall>>
    /\ UNCHANGED notAfVars

\* the first with-block: select the listener, leave the block
AfGetDbCheck(t) ==
    /\ afPc[t] = "g_check"
    /\ LET l == af_select_listener(afBundles, afCall[t].key, afMain, afSlave)
       IN  /\ afCall' = [afCall EXCEPT ![t].listener = l]
           /\ afLock' = af_leave_check(afLock, l)
           /\ afPc' = [afPc EXCEPT ![t] =
                        IF l = None THEN "g_lock2" ELSE "g_listener"]
    /\ UNCHANGED <<afBundles, afMain, afSlave>>
    /\ UNCHANGED notAfVars

\* _invoke_listener_async: the listener (a function, or a coroutine that is
\* awaited) is in progress and does nothing to the factory
AfListenerReturns(t) ==
    /\ afPc[t] = "g_listener"
    /\ afPc' = [afPc EXCEPT ![t] = "g_lock2"]
    /\ UNCHANGED <<afBundles, afMain, afSlave, afLock, afCall>>
    /\ UNCHANGED notAfVars

\* the listener raises: get_db propagates the exception
AfListenerRaises(t) ==
    /\ afPc[t] = "g_listener"
    /\ afPc' = [afPc EXCEPT ![t] = "done"]
    /\ afCall' = [afCall EXCEPT ![t].raised = "ListenerError"]
    /\ UNCHANGED <<afBundles, afMain, afSlave, afLock>>
    /\ UNCHANGED notAfVars

\* the listener calls XAsyncDBFactory.register(db_name, w, r) with the key
\* it was invoked with: register enters `with cls._lock`
AfListenerRegisterAcquire(t) ==
    /\ afPc[t] = "g_listener"
    /\ CanAcquire(afLock, t)
    /\ afLock' = Acquire(afLock, t)
    /\ afPc' = [afPc EXCEPT ![t] = "l_store"]
    /\ UNCHANGED <<afBundles, afMain, afSlave, afCall>>
    /\ UNCHANGED notAfVars

\* the listener's register stores the manager and leaves the with-block;
\* the listener then returns
AfListenerRegisterStore(t) ==
    /\ afPc[t] = "l_store"
    /\ afBundles' = Put(afBundles, afCall[t].key,
                        NewAsyncManager(afBundles, afCall[t].key, "a1", "a1"))
    /\ afLock' = Release(afLock)
    /\ afPc' = [afPc EXCEPT ![t] = "g_lock2"]
    /\ UNCHANGED <<afMain, afSlave, afCall>>
    /\ UNCHANGED notAfVars

\* get_db enters its second `with cls._lock`
AfGetDbAcquire2(t) ==
    /\ afPc[t] = "g_lock2"
    /\ CanAcquire(afLock, t)
    /\ afLock' = Acquire(afLock, t)
    /\ afPc' = [afPc EXCEPT ![t] = "g_lookup"]
    /\ UNCHANGED <<afBundles, afMain, afSlave, afCall>>
    /\ UNCHANGED notAfVars

\* the second with-block: the lookup; the block is left by return or raise
AfGetDbLookup(t) ==
    /\ afPc[t] = "g_lookup"
    /\ LET res == af_lookup(afBundles, afCall[t].key, afCall[t].flag)
       IN  afCall' = [afCall EXCEPT ![t].result = res.result,
                                    ![t].raised = res.raised]
    /\ afLock' = Release(afLock)
    /\ afPc' = [afPc EXCEPT ![t] = "done"]
    /\ UNCHANGED <<afBundles, afMain, afSlave>>
    /\ UNCHANGED notAfVars

NextAF ==
    \/ \E t \in Threads, l \in MainListeners : AfRegisterMainDb(t, l)
    \/ \E t \in Threads, l \in SlaveListeners : AfRegisterSlaveDb(t, l)
    \/ \E t \in Threads, k \in DbKeys, w, r \in AsyncConnects \cup {None} :
            AfRegisterCall(t, k, w, r)
    \/ \E t \in Threads : AfRegisterAcquire(t)
    \/ \E t \in Threads : AfRegisterStore(t)
    \/ \E t \in Threads, k \in DbKeys, req \in BOOLEAN : AfGetDbCall(t, k, req)
    \/ \E t \in Threads : AfGetDbAcquire1(t)
    \/ \E t \in Threads : AfGetDbCheck(t)
    \/ \E t \in Threads : AfListenerReturns(t)
    \/ \E t \in Threads : AfListenerRaises(t)
    \/ \E t \in Threads : AfListenerRegisterAcquire(t)
    \/ \E t \in Threads : AfListenerRegisterStore(t)
    \/ \E t \in Threads : AfGetDbAcquire2(t)
    \/ \E t \in Threads : AfGetDbLookup(t)

\* ======================================================================
\* XCacheFactory
\* ======================================================================

CacheNames == {"default", "reports"}

\* the host arguments callers pass to create
CacheHosts == {"h1", "h2"}

\* what the environment can hold under redis.host
EnvHosts == {"h3"}

\* the most XCache objects constructed in a run
MaxInstances == 4

\* the instance create / get return when the name is not registered
NoInstance == [id |-> 0, host |-> None]

\* XCache(host, ...): a new object
NewInstance(created, host) == [id |-> created + 1, host |-> host]

\* os.getenv("redis.host", "127.0.0.1")
getenv_host(env) == IF env = None THEN "127.0.0.1" ELSE env

\* create that constructs and registers a new instance whether or not the
\* name is registered
XCacheFactory_create_replace(inst, created, name, host) ==
    LET i == NewInstance(created, host)
    IN  [instances |-> Put(inst, name, i), created |-> created + 1,
         result |-> i, raised |-> "none"]

\* XCacheFactory.create(name, host, ...)
XCacheFactory_create(inst, created, name, host) ==
    IF name \in DOMAIN inst
    THEN [instances |-> inst, created |-> created,
          result |-> inst[name], raised |-> "none"]
    ELSE LET i == NewInstance(created, host)
         IN  [instances |-> Put(inst, name, i), created |-> created + 1,
              result |-> i, raised |-> "none"]

\* get that creates an instance for any name that is not registered
XCacheFactory_get_create_any(inst, created, name, env) ==
    IF name \notin DOMAIN inst
    THEN XCacheFactory_create(inst, created, name, getenv_host(env))
    ELSE [instances |-> inst, created |-> created,
          result |-> inst[name], raised |-> "none"]

\* XCacheFactory.get(name) (get_default and get_cache are the same call)
XCacheFactory_get(inst, created, name, env) ==
    IF name \notin DOMAIN inst
    THEN IF name = "default"
         THEN XCacheFactory_create(inst, created, "default", getenv_host(env))
         ELSE [instances |-> inst, created |-> created,
               result |-> NoInstance, raised |-> "ValueError"]
    ELSE [instances |-> inst, created |-> created,
          result |-> inst[name], raised |-> "none"]

\* XCacheFactory.delete(name)
XCacheFactory_delete(inst, name) == [x \in DOMAIN inst \ {name} |-> inst[x]]

CfCallRec(op, name, host, result, raised) ==
    [op |-> op, name |-> name, host |-> host, result |-> result,
     raised |-> raised]

\* the history after a call on name that returned result
Handed(h, name, res) ==
    IF res.raised = "none"
    THEN [h EXCEPT ![name] = h[name] \cup {res.result.id}]
    ELSE h

InitCF ==
    /\ cfInstances = << >>
    /\ cfCreated = 0
    /\ cfEnvHost = None
    /\ cfHanded = [n \in CacheNames |-> {}]
    /\ cfCall = CfCallRec("none", None, None, NoInstance, "none")

\* XCacheFactory.create(name, host) / create_cache(name, host)
CfCreate(name, host) ==
    /\ LET res == XCacheFactory_create(cfInstances, cfCreated, name, host)
       IN  /\ res.created <= MaxInstances
           /\ cfInstances' = res.instances
           /\ cfCreated' = res.created
           /\ cfHanded' = Handed(cfHanded, name, res)
           /\ cfCall' = CfCallRec("create", name, host, res.result, res.raised)
    /\ UNCHANGED cfEnvHost
    /\ UNCHANGED notCfVars

\* XCacheFactory.get(name) / get_default(name) / get_cache(name)
CfGet(name) ==
    /\ LET res == XCacheFactory_get(cfInstances, cfCreated, name, cfEnvHost)
       IN  /\ res.created <= MaxInstances
           /\ cfInstances' = res.instances
           /\ cfCreated' = res.created
           /\ cfHanded' = Handed(cfHanded, name, res)
           /\ cfCall' = CfCallRec("get", name, None, res.result, res.raised)
    /\ UNCHANGED cfEnvHost
    /\ UNCHANGED notCfVars

\* XCacheFactory.delete(name) / delete_cache(name)
CfDelete(name) ==
    /\ cfInstances' = XCacheFactory_delete(cfInstances, name)
    /\ cfHanded' = [cfHanded EXCEPT ![name] = {}]
    /\ cfCall' = CfCallRec("delete", name, None, NoInstance, "none")
    /\ UNCHANGED <<cfCreated, cfEnvHost>>
    /\ UNCHANGED notCfVars

\* the environment sets redis.host
CfSetEnv(h) ==
    /\ cfEnvHost' = h
    /\ cfCall' = CfCallRec("setenv", None, h, NoInstance, "none")
    /\ UNCHANGED <<cfInstances, cfCreated, cfHanded>>
    /\ UNCHANGED notCfVars

NextCF ==
    \/ \E n \in CacheNames, h \in CacheHosts : CfCreate(n, h)
    \/ \E n \in CacheNames : CfGet(n)
    \/ \E n \in CacheNames : CfDelete(n)
    \/ \E h \in EnvHosts : CfSetEnv(h)

\* ======================================================================
\* XCache
\* ======================================================================

\* ---- Python values
PyNone == [t |-> "none", v |-> 0]

PyInt(n) == [t |-> "int", v |-> n]

PyStr(x) == [t |-> "str", v |-> x]

PyBool(b) == [t |-> "bool", v |-> b]

\* a list: the sequence of its items
PyList(xs) == [t |-> "list", v |-> xs]

\* a dict: the sequence of its <<key, value>> items
PyDict(ps) == [t |-> "dict", v |-> ps]

\* an object with a __dict__: the sequence of its <<attribute, value>> items
PyObj(ps) == [t |-> "obj", v |-> ps]

\* an integer outside the 64 bits msgpack packs
PyBigInt == [t |-> "bigint", v |-> 0]

\* an object msgpack has no format for (SQLAlchemy's InstanceState)
PyOpaque == [t |-> "opaque", v |-> 0]

\* ---- msgpack: the packed form is the sequence of its format tokens
Tok(f, a) == [f |-> f, a |-> a]

RECURSIVE Packable(_)
Packable(v) ==
    CASE v.t \in {"none", "int", "str", "bool"} -> TRUE
      [] v.t = "list" -> \A i \in 1..Len(v.v) : Packable(v.v[i])
      [] v.t = "dict" -> \A i \in 1..Len(v.v) :
                            Packable(v.v[i][1]) /\ Packable(v.v[i][2])
      [] OTHER -> FALSE

RECURSIVE PackV(_)
PackV(v) ==
    LET RECURSIVE items(_, _)
        items(xs, i) ==
            IF i > Len(xs) THEN <<>> ELSE PackV(xs[i]) \o items(xs, i + 1)
        RECURSIVE pairs(_, _)
        pairs(ps, i) ==
            IF i > Len(ps) THEN <<>>
            ELSE PackV(ps[i][1]) \o PackV(ps[i][2]) \o pairs(ps, i + 1)
    IN  CASE v.t = "none" -> <<Tok("nil", 0)>>
          [] v.t = "int"  -> <<Tok("int", v.v)>>
          [] v.t = "str"  -> <<Tok("str", v.v)>>
          [] v.t = "bool" -> <<Tok("bool", v.v)>>
          [] v.t = "list" -> <<Tok("array", Len(v.v))>> \o items(v.v, 1)
          [] v.t = "dict" -> <<Tok("map", Len(v.v))>> \o pairs(v.v, 1)

\* msgpack.packb(v)
packb(v) ==
    IF Packable(v) THEN [ok |-> TRUE, bytes |-> PackV(v), raised |-> "none"]
    ELSE [ok |-> FALSE, bytes |-> <<>>,
          raised |-> IF v.t = "bigint" THEN "OverflowError" ELSE "TypeError"]

ParseFail == [ok |-> FALSE, val |-> PyNone, next |-> 0]

\* one value parsed from position i of bs: [ok, val, next]; map keys must be
\* str (strict_map_key, the default of msgpack 1.x)
RECURSIVE Parse(_, _, _)
Parse(bs, i, strict) ==
    LET RECURSIVE items(_, _, _)
        items(j, n, acc) ==
            IF n = 0 THEN [ok |-> TRUE, val |-> PyList(acc), next |-> j]
            ELSE LET x == Parse(bs, j, strict)
                 IN  IF x.ok THEN items(x.next, n - 1, Append(acc, x.val))
                     ELSE ParseFail
        RECURSIVE pairs(_, _, _)
        pairs(j, n, acc) ==
            IF n = 0 THEN [ok |-> TRUE, val |-> PyDict(acc), next |-> j]
            ELSE LET k == Parse(bs, j, strict)
                 IN  IF ~ k.ok \/ (strict /\ k.val.t # "str") THEN ParseFail
                     ELSE LET x == Parse(bs, k.next, strict)
                          IN  IF x.ok
                              THEN pairs(x.next, n - 1,
                                         Append(acc, <<k.val, x.val>>))
                              ELSE ParseFail
    IN  IF i > Len(bs) THEN ParseFail
        ELSE CASE bs[i].f = "nil"   -> [ok |-> TRUE, val |-> PyNone, next |-> i + 1]
               [] bs[i].f = "int"   -> [ok |-> TRUE, val |-> PyInt(bs[i].a), next |-> i + 1]
               [] bs[i].f = "str"   -> [ok |-> TRUE, val |-> PyStr(bs[i].a), next |-> i + 1]
               [] bs[i].f = "bool"  -> [ok |-> TRUE, val |-> PyBool(bs[i].a), next |-> i + 1]
               [] bs[i].f = "array" -> items(i + 1, bs[i].a, <<>>)
               [] bs[i].f = "map"   -> pairs(i + 1, bs[i].a, <<>>)
               [] OTHER -> ParseFail

\* msgpack.unpackb(bs, raw=False): one value and nothing after it
unpackb(bs) ==
    LET x == Parse(bs, 1, TRUE)
    IN  IF x.ok /\ x.next = Len(bs) + 1
        THEN [ok |-> TRUE, val |-> x.val, raised |-> "none"]
        ELSE [ok |-> FALSE, val |-> PyNone, raised |-> "ValueError"]

\* attribute names that start with an underscore
PrivateNames == {"_sa_instance_state"}

\* XCache.serialize(value)
serialize(value) ==
    IF value.t = "obj"
    THEN packb(PyDict(SelectSeq(value.v, LAMBDA p : p[1].v \notin PrivateNames)))
    ELSE packb(value)

\* XCache.deserialize(value)
deserialize(bytes) == unpackb(bytes)

\* ---- what the Redis client answers
\* a command is answered, or raises redis.ConnectionError, or raises another
\* redis.RedisError (ResponseError, TimeoutError)
Answers == {"ok", "ConnectionError", "ResponseError"}

\* XCache.set's default expire, in milliseconds
DefaultExpire == 3600000

\* XCache._init_client: [client, ret, raised].  The client is assigned before
\* it is pinged.
XCache_init_client(client, ping) ==
    IF client = None
    THEN CASE ping = "ok" ->
                [client |-> "redis", ret |-> TRUE, raised |-> "none"]
           [] ping = "ConnectionError" ->
                [client |-> "redis", ret |-> FALSE, raised |-> "none"]
           [] OTHER ->
                [client |-> "redis", ret |-> FALSE, raised |-> ping]
    ELSE [client |-> client, ret |-> TRUE, raised |-> "none"]

\* XCache.set(key, value, expire): [client, store, result, raised]
XCache_set(client, store, key, value, expire, ping, io) ==
    LET init == XCache_init_client(client, ping)
        ser  == serialize(value)
    IN  IF init.raised # "none"
        THEN [client |-> init.client, store |-> store,
              result |-> PyBool(FALSE), raised |-> "none"]
        ELSE IF ~ init.ret
        THEN [client |-> init.client, store |-> store,
              result |-> PyBool(FALSE), raised |-> "none"]
        ELSE IF ~ ser.ok
        THEN [client |-> init.client, store |-> store,
              result |-> PyNone, raised |-> "none"]
        ELSE IF io # "ok"
        THEN [client |-> init.client, store |-> store,
              result |-> PyBool(FALSE), raised |-> "none"]
        ELSE [client |-> init.client,
              store |-> Put(store, key, [data |-> ser.bytes, px |-> expire]),
              result |-> PyBool(TRUE), raised |-> "none"]

\* cls(**d): the object built from the dict d
Construct(d) == PyObj(d.v)

\* get without its `except Exception` clause: an error of deserialize or of
\* cls(**d) propagates
XCache_get_narrow(client, store, key, default, cls, ping, io, ctor) ==
    LET init == XCache_init_client(client, ping)
        des  == unpackb(store[key].data)
    IN  IF init.raised # "none" \/ ~ init.ret \/ io # "ok"
           \/ key \notin DOMAIN store
        THEN [client |-> init.client, result |-> default, raised |-> "none"]
        ELSE IF ~ des.ok
        THEN [client |-> init.client, result |-> default, raised |-> des.raised]
        ELSE IF cls # None /\ des.val.t = "dict"
        THEN IF ctor
             THEN [client |-> init.client, result |-> PyObj(des.val.v),
                   raised |-> "none"]
             ELSE [client |-> init.client, result |-> default,
                   raised |-> "TypeError"]
        ELSE [client |-> init.client, result |-> des.val, raised |-> "none"]

\* XCache.get(key, default, cls): [client, result, raised].  ctor: whether
\* cls(**d) succeeds.
XCache_get(client, store, key, default, cls, ping, io, ctor) ==
    LET init == XCache_init_client(client, ping)
        des  == deserialize(store[key].data)
    IN  IF init.raised # "none"
        THEN [client |-> init.client, result |-> default, raised |-> "none"]
        ELSE IF ~ init.ret
        THEN [client |-> init.client, result |-> default, raised |-> "none"]
        ELSE IF io # "ok"
        THEN [client |-> init.client, result |-> default, raised |-> "none"]
        ELSE IF key \notin DOMAIN store
        THEN [client |-> init.client, result |-> default, raised |-> "none"]
        ELSE IF ~ des.ok
        THEN [client |-> init.client, result |-> default, raised |-> "none"]
        ELSE IF cls # None /\ des.val.t = "dict"
        THEN IF ctor
             THEN [client |-> init.client, result |-> Construct(des.val),
                   raised |-> "none"]
             ELSE [client |-> init.client, result |-> default, raised |-> "none"]
        ELSE [client |-> init.client, result |-> des.val, raised |-> "none"]

\* XCache.delete(key): [client, store, result, raised]
XCache_delete(client, store, key, ping, io) ==
    LET init == XCache_init_client(client, ping)
    IN  IF init.raised # "none"
        THEN [client |-> init.client, store |-> store,
              result |-> PyInt(0), raised |-> "none"]
        ELSE IF ~ init.ret
        THEN [client |-> init.client, store |-> store,
              result |-> PyNone, raised |-> "none"]
        ELSE IF io # "ok"
        THEN [client |-> init.client, store |-> store,
              result |-> PyInt(0), raised |-> "none"]
        ELSE [client |-> init.client,
              store |-> [x \in DOMAIN store \ {key} |-> store[x]],
              result |-> PyInt(IF key \in DOMAIN store THEN 1 ELSE 0),
              raised |-> "none"]

\* ---- the inputs
CacheKeys == {"k1", "k2"}

DictStrKeys == PyDict(<< <<PyStr("a"), PyList(<<PyInt(1), PyBool(TRUE)>>)>> >>)

DictIntKeys == PyDict(<< <<PyInt(1), PyStr("a")>> >>)

Entity == PyObj(<< <<PyStr("name"), PyStr("a")>>,
                   <<PyStr("_sa_instance_state"), PyOpaque>> >>)

\* the plain serialisable values: integers, strings, booleans, lists and
\* dicts of such
PlainValues == {PyInt(1), PyStr("a"), PyList(<<PyBool(TRUE), PyStr("a")>>),
                DictStrKeys, DictIntKeys}

CacheValues == PlainValues \cup {Entity, PyBigInt}

CacheDefaults == {PyNone, PyStr("dflt")}

CacheClasses == {None, "Entity"}

\* the expire arguments: the default of the signature, and None
CacheExpires == {PyInt(DefaultExpire), PyNone}

\* bytes written by another client that are no msgpack value: an array
\* header with nothing after it
ForeignBytes == <<Tok("array", 2)>>

XcCallRec(op, key, value, default, cls, ping, io, ctor, result, raised) ==
    [op |-> op, key |-> key, value |-> value, default |-> default,
     cls |-> cls, ping |-> ping, io |-> io, ctor |-> ctor,
     result |-> result, raised |-> raised]

\* the history without key
Forget(h, key) == [x \in DOMAIN h \ {key} |-> h[x]]

InitXC ==
    /\ xcClient = None
    /\ rdStore = << >>
    /\ xcLastSet = << >>
    /\ xcCall = XcCallRec("none", None, PyNone, PyNone, None, "ok", "ok", TRUE,
                          PyNone, "none")

\* an answer that is never asked for is not varied: the ping when the client
\* is set, the command when the client could not be initialised
AnswersAsked(ping, io) ==
    /\ (xcClient # None => ping = "ok")
    /\ (ping # "ok" => io = "ok")

\* cache.set(key, value, expire)
XcSet(key, value, expire, ping, io) ==
    /\ AnswersAsked(ping, io)
    /\ (~ serialize(value).ok => io = "ok")
    /\ LET res == XCache_set(xcClient, rdStore, key, value, expire, ping, io)
       IN  /\ xcClient' = res.client
           /\ rdStore' = res.store
           /\ xcLastSet' = IF res.result = PyBool(TRUE)
                           THEN Put(xcLastSet, key, value)
                           ELSE xcLastSet
           /\ xcCall' = XcCallRec("set", key, value, PyNone, None, ping, io,
                                  TRUE, res.result, res.raised)
    /\ UNCHANGED notXcVars

\* cache.get(key, default, cls)
XcGet(key, default, cls, ping, io, ctor) ==
    /\ AnswersAsked(ping, io)
    /\ (ctor \/ cls # None)
    /\ LET res == XCache_get(xcClient, rdStore, key, default, cls, ping, io, ctor)
       IN  /\ xcClient' = res.client
           /\ xcCall' = XcCallRec("get", key, PyNone, default, cls, ping, io,
                                  ctor, res.result, res.raised)
    /\ UNCHANGED <<rdStore, xcLastSet>>
    /\ UNCHANGED notXcVars

\* cache.delete(key)
XcDelete(key, ping, io) ==
    /\ AnswersAsked(ping, io)
    /\ LET res == XCache_delete(xcClient, rdStore, key, ping, io)
       IN  /\ xcClient' = res.client
           /\ rdStore' = res.store
           /\ xcLastSet' = IF key \in DOMAIN res.store THEN xcLastSet
                           ELSE Forget(xcLastSet, key)
           /\ xcCall' = XcCallRec("delete", key, PyNone, PyNone, None, ping, io,
                                  TRUE, res.result, res.raised)
    /\ UNCHANGED notXcVars

\* Redis drops a key whose time to live is over
RedisExpire(key) ==
    /\ key \in DOMAIN rdStore
    /\ rdStore[key].px # PyNone
    /\ rdStore' = [x \in DOMAIN rdStore \ {key} |-> rdStore[x]]
    /\ xcLastSet' = Forget(xcLastSet, key)
    /\ xcCall' = XcCallRec("expired", key, PyNone, PyNone, None, "ok", "ok",
                           TRUE, PyNone, "none")
    /\ UNCHANGED xcClient
    /\ UNCHANGED notXcVars

\* another client of the server writes bytes that are no msgpack value
RedisForeignWrite(key) ==
    /\ rdStore' = Put(rdStore, key, [data |-> ForeignBytes, px |-> PyNone])
    /\ xcLastSet' = Forget(xcLastSet, key)
    /\ xcCall' = XcCallRec("foreign", key, PyNone, PyNone, None, "ok", "ok",
                           TRUE, PyNone, "none")
    /\ UNCHANGED xcClient
    /\ UNCHANGED notXcVars

NextXC ==
    \/ \E k \in CacheKeys, v \in CacheValues, e \in CacheExpires,
          ping, io \in Answers : XcSet(k, v, e, ping, io)
    \/ \E k \in CacheKeys, d \in CacheDefaults, c \in CacheClasses,
          ping, io \in Answers, ctor \in BOOLEAN : XcGet(k, d, c, ping, io, ctor)
    \/ \E k \in CacheKeys, ping, io \in Answers : XcDelete(k, ping, io)
    \/ \E k \in CacheKeys : RedisExpire(k)
    \/ \E k \in CacheKeys : RedisForeignWrite(k)

\* ======================================================================
\* XConfig
\* ======================================================================

\* a mapping loaded from YAML: a function from its keys to its values.  A
\* key is the sequence of its characters.
PyMap(f) == [t |-> "map", v |-> f]

EmptyMap == PyMap(<< >>)

\* one key with one value
Entry(k, val) == [x \in {k} |-> val]

\* str.split("."): the segments of a sequence of characters
RECURSIVE SplitDots(_, _, _)
SplitDots(cs, i, seg) ==
    IF i > Len(cs) THEN <<seg>>
    ELSE IF cs[i] = "." THEN <<seg>> \o SplitDots(cs, i + 1, <<>>)
    ELSE SplitDots(cs, i + 1, Append(seg, cs[i]))

split_dots(cs) == SplitDots(cs, 1, <<>>)

\* what a YAML file holds: nothing (no such file), text that is no YAML, or
\* the value yaml.safe_load returns
NoFile == [t |-> "nofile", v |-> 0]

BadYaml == [t |-> "badyaml", v |-> 0]

\* Python truth of a loaded value
Truthy(val) ==
    CASE val.t = "none" -> FALSE
      [] val.t = "int"  -> val.v # 0
      [] val.t = "bool" -> val.v
      [] val.t = "str"  -> val.v # ""
      [] val.t = "list" -> Len(val.v) > 0
      [] val.t = "map"  -> DOMAIN val.v # {}
      [] OTHER -> TRUE

\* XConfig.__load_config
XConfig_load_config(file) ==
    IF file = NoFile \/ file = BadYaml THEN EmptyMap
    ELSE IF Truthy(file) THEN file
    ELSE EmptyMap

\* the loop of __retrieve_value: value.get(key) for each key
RECURSIVE XConfig_walk(_, _, _, _)
XConfig_walk(value, keys, i, default) ==
    IF i > Len(keys) THEN [result |-> value, raised |-> "none"]
    ELSE IF value.t # "map"
    THEN [result |-> PyNone, raised |-> "AttributeError"]
    ELSE LET nxt == IF keys[i] \in DOMAIN value.v THEN value.v[keys[i]]
                    ELSE PyNone
         IN  IF nxt = PyNone THEN [result |-> default, raised |-> "none"]
             ELSE XConfig_walk(nxt, keys, i + 1, default)

\* XConfig.__retrieve_value(config, key_path, default)
XConfig_retrieve_value(config, key_path, default) ==
    IF config = PyNone THEN [result |-> default, raised |-> "none"]
    ELSE XConfig_walk(config, split_dots(key_path), 1, default)

\* XConfig.get(key_path, default): [result, raised]
XConfig_get(data, dflt_config, key_path, default) ==
    LET first == XConfig_retrieve_value(data, key_path, default)
        second == XConfig_retrieve_value(dflt_config, key_path, default)
    IN  IF first.raised # "none" THEN first
        ELSE IF first.result # PyNone THEN first
        ELSE IF second.raised # "none" THEN second
        ELSE [result |-> IF second.result # PyNone THEN second.result
                         ELSE default,
              raised |-> "none"]

\* ---- the inputs
KeyA == <<"a">>

KeyB == <<"b">>

\* the contents of config.yaml and of <env>.yaml
XConfigFiles ==
    { NoFile, BadYaml, PyNone,
      PyMap(Entry(KeyA, PyInt(1))),
      PyMap(Entry(KeyA, PyInt(0))),
      PyMap(Entry(KeyA, PyNone)),
      PyMap(Entry(KeyA, PyMap(Entry(KeyB, PyInt(2))))),
      PyMap(Entry(KeyB, PyStr("x"))),
      PyList(<<PyInt(1)>>) }

\* "a", "b", "a.b"
XConfigPaths == { KeyA, KeyB, <<"a", ".", "b">> }

XConfigDefaults == { PyNone, PyInt(7) }

XfCallRec(op, key_path, default, result, raised) ==
    [op |-> op, key_path |-> key_path, default |-> default,
     result |-> result, raised |-> raised]

InitXF ==
    /\ xfDefault = PyNone
    /\ xfData = PyNone
    /\ xfCall = XfCallRec("none", <<>>, PyNone, PyNone, "none")

\* XConfig.init(base_path, env), config.yaml holding dfltFile and
\* <env>.yaml holding envFile
XfInit(dfltFile, envFile) ==
    /\ xfDefault' = XConfig_load_config(dfltFile)
    /\ xfData' = XConfig_load_config(envFile)
    /\ xfCall' = XfCallRec("init", <<>>, PyNone, PyNone, "none")
    /\ UNCHANGED notXfVars

\* XConfig.get(key_path, default)
XfGet(key_path, default) ==
    /\ LET res == XConfig_get(xfData, xfDefault, key_path, default)
       IN  xfCall' = XfCallRec("get", key_path, default, res.result, res.raised)
    /\ UNCHANGED <<xfDefault, xfData>>
    /\ UNCHANGED notXfVars

NextXF ==
    \/ \E d, e \in XConfigFiles : XfInit(d, e)
    \/ \E p \in XConfigPaths, d \in XConfigDefaults : XfGet(p, d)

\* ======================================================================
\* ConfigManager
\* ======================================================================

\* ---- strings are sequences of characters

UpperChars == {"A", "B", "C", "D", "E", "F", "G", "L", "O", "R", "S"}

LowerChars == {"a", "b", "c", "d", "e", "l", "m", "p", "q", "r", "x", "y", "z"}

DigitChars == {"0", "1", "2", "3", "4", "5", "6", "7", "8", "9"}

\* [A-Za-z_]
NameStartChars == UpperChars \cup LowerChars \cup {"_"}

\* [A-Za-z0-9_]
NameChars == NameStartChars \cup DigitChars

\* ConfigManager._ESCAPED_MARK: "__CFG_ESC_DOLLAR_LBRACE__"
ESCAPED_MARK ==
    <<"_", "_", "C", "F", "G", "_", "E", "S", "C", "_", "D", "O", "L", "L",
      "A", "R", "_", "L", "B", "R", "A", "C", "E", "_", "_">>

\* r"\${"
EscapedOpen == <<"\\", "$", "{">>

\* "${"
DollarBrace == <<"$", "{">>

\* whether pat occurs in s at index i
OccursAt(s, pat, i) ==
    /\ i + Len(pat) - 1 <= Len(s)
    /\ \A j \in 1..Len(pat) : s[i + j - 1] = pat[j]

\* str.replace(pat, rep), from index i on
RECURSIVE ReplaceFrom(_, _, _, _)
ReplaceFrom(s, pat, rep, i) ==
    IF i > Len(s) THEN <<>>
    ELSE IF OccursAt(s, pat, i)
    THEN rep \o ReplaceFrom(s, pat, rep, i + Len(pat))
    ELSE <<s[i]>> \o ReplaceFrom(s, pat, rep, i + 1)

str_replace(s, pat, rep) == ReplaceFrom(s, pat, rep, 1)

\* the index of the last character of the longest run of name characters
\* that starts at index i
RECURSIVE NameEnd(_, _)
NameEnd(s, i) ==
    IF i + 1 <= Len(s) /\ s[i + 1] \in NameChars THEN NameEnd(s, i + 1) ELSE i

\* the index of the first "}" at or after index i, 0 if there is none
RECURSIVE FirstClose(_, _)
FirstClose(s, i) ==
    IF i > Len(s) THEN 0
    ELSE IF s[i] = "}" THEN i
    ELSE FirstClose(s, i + 1)

NoMatch == [ok |-> FALSE, name |-> <<>>, spec |-> <<>>, end |-> 0]

\* the match of (?P<spec>...)?\} after the name that ends at index e, close
\* being the index of the first "}" after the colon
MatchSpec(s, i, e, close) ==
    IF close = 0 THEN NoMatch
    ELSE [ok |-> TRUE, name |-> SubSeq(s, i + 2, e),
          spec |-> SubSeq(s, e + 1, close - 1), end |-> close]

MatchAfterName(s, i, e) ==
    IF e + 1 > Len(s) THEN NoMatch
    ELSE IF s[e + 1] = "}"
    THEN [ok |-> TRUE, name |-> SubSeq(s, i + 2, e), spec |-> <<>>,
          end |-> e + 1]
    ELSE IF s[e + 1] = ":" THEN MatchSpec(s, i, e, FirstClose(s, e + 2))
    ELSE NoMatch

\* _ENV_PATTERN matched at index i of s: the name, the spec (empty: the
\* group did not take part) and the index of the closing brace
ENV_PATTERN_match(s, i) ==
    IF ~ (i + 2 <= Len(s) /\ s[i] = "$" /\ s[i + 1] = "{"
          /\ s[i + 2] \in NameStartChars)
    THEN NoMatch
    ELSE MatchAfterName(s, i, NameEnd(s, i + 2))

\* repl of _interpolate_str: [out, raised]
interpolate_repl(name, spec, environ) ==
    IF name \in DOMAIN environ
    THEN [out |-> environ[name], raised |-> "none"]
    ELSE IF spec = <<>>
    THEN [out |-> <<>>, raised |-> "none"]
    ELSE IF Tail(spec) # <<>> /\ Head(Tail(spec)) = "?"
    THEN [out |-> <<>>, raised |-> "ConfigError"]
    ELSE [out |-> Tail(spec), raised |-> "none"]

\* cs followed by what the rest of the substitution gave
Prepend(cs, rest) == [out |-> cs \o rest.out, raised |-> rest.raised]

\* _ENV_PATTERN.sub(repl, s), from index i on: [out, raised]
RECURSIVE ENV_PATTERN_sub(_, _, _)

\* after the match m was replaced by r
SubMatched(s, environ, m, r) ==
    IF r.raised # "none" THEN r
    ELSE Prepend(r.out, ENV_PATTERN_sub(s, m.end + 1, environ))

\* at index i, m being the match of the pattern there
SubAt(s, i, environ, m) ==
    IF m.ok
    THEN SubMatched(s, environ, m, interpolate_repl(m.name, m.spec, environ))
    ELSE Prepend(<<s[i]>>, ENV_PATTERN_sub(s, i + 1, environ))

ENV_PATTERN_sub(s, i, environ) ==
    IF i > Len(s) THEN [out |-> <<>>, raised |-> "none"]
    ELSE SubAt(s, i, environ, ENV_PATTERN_match(s, i))

\* out.replace(_ESCAPED_MARK, "${")
RestoreEscaped(sub) ==
    IF sub.raised # "none" THEN [out |-> <<>>, raised |-> sub.raised]
    ELSE [out |-> str_replace(sub.out, ESCAPED_MARK, DollarBrace),
          raised |-> "none"]

\* ConfigManager._interpolate_str(s): [out, raised]
ConfigManager_interpolate_str(s, environ) ==
    IF s = <<>> THEN [out |-> s, raised |-> "none"]
    ELSE RestoreEscaped(
            ENV_PATTERN_sub(str_replace(s, EscapedOpen, ESCAPED_MARK), 1,
                            environ))

\* ---- Python objects: dicts and lists are objects of a heap, held by
\* reference; a heap is a function from object ids to nodes, a node is
\* PyMap(f) or PyList(xs), and the values in a node are scalars or
\* references

Ref(id) == [t |-> "ref", v |-> id]

KeyC == <<"c">>

KeyP == <<"p">>

KeyR == <<"r">>

\* the order in which the items of a dict are visited
KeyOrder == <<KeyA, KeyB, KeyC, KeyP, KeyR>>

KeysOf(node) == SelectSeq(KeyOrder, LAMBDA k : k \in DOMAIN node.v)

IsMapRef(heap, val) == val.t = "ref" /\ heap[val.v].t = "map"

IsListRef(heap, val) == val.t = "ref" /\ heap[val.v].t = "list"

\* the value val of the heap as a value without references
RECURSIVE TreeOf(_, _)
TreeOf(heap, val) ==
    IF IsMapRef(heap, val)
    THEN PyMap([k \in DOMAIN heap[val.v].v |-> TreeOf(heap, heap[val.v].v[k])])
    ELSE IF IsListRef(heap, val)
    THEN PyList([i \in 1..Len(heap[val.v].v) |-> TreeOf(heap, heap[val.v].v[i])])
    ELSE val

\* ---- YAML files

\* a YAML document: its root value and its mappings and sequences, numbered
\* within the document.  Two references to one number are an anchor and its
\* alias (or a merge key that brings in an anchored mapping's items).
YamlDoc(root, objs) == [t |-> "yaml", root |-> root, objs |-> objs]

\* the id of the object numbered n in the document loaded at position pos
\* of the files list
ObjId(pos, n) == <<pos, n>>

RelabelVal(val, pos) == IF val.t = "ref" THEN Ref(ObjId(pos, val.v)) ELSE val

RelabelNode(node, pos) ==
    IF node.t = "map"
    THEN PyMap([k \in DOMAIN node.v |-> RelabelVal(node.v[k], pos)])
    ELSE PyList([i \in 1..Len(node.v) |-> RelabelVal(node.v[i], pos)])

\* yaml.safe_load of a document: [data, objs], the value and the objects it
\* constructed; one object per anchored node, however often it is aliased
yaml_safe_load(doc, pos) ==
    [data |-> RelabelVal(doc.root, pos),
     objs |-> [id \in {ObjId(pos, n) : n \in DOMAIN doc.objs} |->
                  RelabelNode(doc.objs[id[2]], pos)]]

\* `return data if data is not None else {}`
LoadedOrEmpty(loaded, pos) ==
    IF loaded.data = PyNone
    THEN [data |-> Ref(ObjId(pos, 0)), objs |-> (ObjId(pos, 0) :> EmptyMap)]
    ELSE loaded

\* ConfigManager._load_yaml_file(path): [data, objs]; data is PyNone when
\* the file is missing or is no YAML, and a new empty dict when the
\* document is empty
ConfigManager_load_yaml_file(file, pos) ==
    IF file = NoFile \/ file = BadYaml
    THEN [data |-> PyNone, objs |-> << >>]
    ELSE LoadedOrEmpty(yaml_safe_load(file, pos), pos)

\* ConfigManager._deep_merge_inplace(base, inc), for the keys ks of inc that
\* are still to visit: the heap afterwards
RECURSIVE DeepMergeItems(_, _, _, _)
DeepMergeItems(heap, base, inc, ks) ==
    IF ks = <<>> THEN heap
    ELSE LET k == Head(ks)
             v == heap[inc].v[k]
             both == /\ k \in DOMAIN heap[base].v
                     /\ IsMapRef(heap, heap[base].v[k])
                     /\ IsMapRef(heap, v)
         IN  DeepMergeItems(
                 IF both
                 THEN DeepMergeItems(heap, heap[base].v[k].v, v.v,
                                     KeysOf(heap[v.v]))
                 ELSE [heap EXCEPT ![base] = PyMap(Put(heap[base].v, k, v))],
                 base, inc, Tail(ks))

ConfigManager_deep_merge_inplace(heap, base, inc) ==
    DeepMergeItems(heap, base, inc, KeysOf(heap[inc]))

\* ConfigManager._interpolate_inplace(node): [heap, val, raised], val being
\* what the call returns
RECURSIVE ConfigManager_interpolate_inplace(_, _, _)
RECURSIVE InterpolateDictItems(_, _, _, _, _)
RECURSIVE InterpolateListItems(_, _, _, _)

\* node[k] = r.val, then the items left
DictItemDone(id, items, ks, environ, r) ==
    IF r.raised # "none" THEN r
    ELSE InterpolateDictItems(
            [r.heap EXCEPT ![id] = PyMap(Put(r.heap[id].v, Head(ks), r.val))],
            id, items, Tail(ks), environ)

\* for k, v in list(node.items()): node[k] = _interpolate_inplace(v)
InterpolateDictItems(heap, id, items, ks, environ) ==
    IF ks = <<>> THEN [heap |-> heap, val |-> Ref(id), raised |-> "none"]
    ELSE DictItemDone(id, items, ks, environ,
            ConfigManager_interpolate_inplace(heap, items[Head(ks)], environ))

\* node[i] = r.val, then the items left
ListItemDone(id, i, environ, r) ==
    IF r.raised # "none" THEN r
    ELSE InterpolateListItems(
            [r.heap EXCEPT ![id] = PyList([r.heap[id].v EXCEPT ![i] = r.val])],
            id, i + 1, environ)

\* for i in range(len(node)): node[i] = _interpolate_inplace(node[i])
InterpolateListItems(heap, id, i, environ) ==
    IF i > Len(heap[id].v)
    THEN [heap |-> heap, val |-> Ref(id), raised |-> "none"]
    ELSE ListItemDone(id, i, environ,
            ConfigManager_interpolate_inplace(heap, heap[id].v[i], environ))

\* the string _interpolate_str returned
StrInterpolated(heap, r) ==
    [heap |-> heap, val |-> PyStr(r.out), raised |-> r.raised]

ConfigManager_interpolate_inplace(heap, val, environ) ==
    IF IsMapRef(heap, val)
    THEN InterpolateDictItems(heap, val.v, heap[val.v].v,
                              KeysOf(heap[val.v]), environ)
    ELSE IF IsListRef(heap, val)
    THEN InterpolateListItems(heap, val.v, 1, environ)
    ELSE IF val.t = "str"
    THEN StrInterpolated(heap, ConfigManager_interpolate_str(val.v, environ))
    ELSE [heap |-> heap, val |-> val, raised |-> "none"]

\* ---- paths, the file system and the process environment

Path(dir, name) == [dir |-> dir, name |-> name]

\* ConfigManager._DEFAULT_PATH: /config/config.yaml
DEFAULT_PATH == Path("/config", "config.yaml")

BasePath == Path("/config", "base.yaml")

ProdPath == Path("/config", "prod.yaml")

\* os.getcwd()
Cwd == "/app"

DOTENV_BASE == ".env"

DOTENV_LOCAL == ".env.local"

\* a .env file: the variables it assigns
DotenvFile(f) == [t |-> "dotenv", v |-> f]

\* os.path.exists(p) and os.path.isfile(p)
FileExists(fs, p) == p \in DOMAIN fs /\ fs[p] # NoFile

\* what the file at p holds
FileAt(fs, p) == IF p \in DOMAIN fs THEN fs[p] ELSE NoFile

\* load_dotenv(p, override=True) for the candidates from position i on
RECURSIVE LoadDotenvFiles(_, _, _, _)
LoadDotenvFiles(candidates, i, fs, environ) ==
    IF i > Len(candidates) THEN environ
    ELSE LoadDotenvFiles(candidates, i + 1, fs,
                         fs[candidates[i]].v @@ environ)

\* the .env files of the directory of the first YAML file and of the
\* working directory
DotenvCandidates(yaml_files, fs) ==
    SelectSeq((IF yaml_files # <<>> /\ yaml_files[1].dir # ""
               THEN <<Path(yaml_files[1].dir, DOTENV_BASE),
                      Path(yaml_files[1].dir, DOTENV_LOCAL)>>
               ELSE <<>>)
              \o <<Path(Cwd, DOTENV_BASE), Path(Cwd, DOTENV_LOCAL)>>,
              LAMBDA q : FileExists(fs, q))

LoadCandidates(candidates, fs, installed, environ) ==
    IF candidates = <<>> \/ ~ installed
    THEN [environ |-> environ, loaded |-> <<>>]
    ELSE [environ |-> LoadDotenvFiles(candidates, 1, fs, environ),
          loaded |-> candidates]

\* ConfigManager._load_dotenv(yaml_files): [environ, loaded].  installed:
\* whether python-dotenv can be imported.
ConfigManager_load_dotenv(yaml_files, fs, installed, environ) ==
    LoadCandidates(DotenvCandidates(yaml_files, fs), fs, installed, environ)

\* ---- ConfigManager._init

\* the id of the dict `merged`
MergedId == ObjId(0, 0)

\* the loop over the files of _init, from position i on: [heap, loaded_yaml]
RECURSIVE MergeFiles(_, _, _, _, _)

\* the file at position i was loaded as got
MergeFile(files, i, fs, heap, loaded_yaml, got) ==
    IF got.data = PyNone \/ ~ IsMapRef(got.objs, got.data)
    THEN MergeFiles(files, i + 1, fs, heap, loaded_yaml)
    ELSE MergeFiles(files, i + 1, fs,
            ConfigManager_deep_merge_inplace(got.objs @@ heap, MergedId,
                                             got.data.v),
            Append(loaded_yaml, files[i]))

MergeFiles(files, i, fs, heap, loaded_yaml) ==
    IF i > Len(files) THEN [heap |-> heap, loaded_yaml |-> loaded_yaml]
    ELSE MergeFile(files, i, fs, heap, loaded_yaml,
                   ConfigManager_load_yaml_file(FileAt(fs, files[i]), i))

Snapshot(data, files, dotenv_files) ==
    [data |-> data, files |-> files, dotenv_files |-> dotenv_files]

\* the outcome of _init: the class state afterwards, os.environ afterwards,
\* what was raised, whether the files were read and the value of `merged`
\* before the interpolation
InitOutcome(snapshot, loaded, environ, raised, didLoad, merged) ==
    [snapshot |-> snapshot, loaded |-> loaded, environ |-> environ,
     raised |-> raised, didLoad |-> didLoad, merged |-> merged]

\* the end of _init: the new snapshot, unless the interpolation raised
InitPublish(snapshot, loaded, dotenv, merged, interpolated) ==
    IF interpolated.raised # "none"
    THEN InitOutcome(snapshot, loaded, dotenv.environ, interpolated.raised,
                     TRUE, TreeOf(merged.heap, Ref(MergedId)))
    ELSE InitOutcome(
            Snapshot(TreeOf(interpolated.heap, Ref(MergedId)),
                     merged.loaded_yaml, dotenv.loaded),
            TRUE, dotenv.environ, "none", TRUE,
            TreeOf(merged.heap, Ref(MergedId)))

\* step 3 of _init, after the dotenv files and the YAML files, reading the
\* environment environ
InitInterpolate(snapshot, loaded, dotenv, merged, environ) ==
    InitPublish(snapshot, loaded, dotenv, merged,
                ConfigManager_interpolate_inplace(merged.heap, Ref(MergedId),
                                                  environ))

\* steps 1 and 2 of _init done
InitLoaded(snapshot, loaded, dotenv, merged) ==
    InitInterpolate(snapshot, loaded, dotenv, merged, dotenv.environ)

\* _init whose interpolation reads the environment as it was before the
\* dotenv files were loaded
ConfigManager_init_dotenv_last(files, reload, snapshot, loaded, environ, fs, installed) ==
    IF ~ reload /\ loaded /\ snapshot # PyNone
    THEN InitOutcome(snapshot, loaded, environ, "none", FALSE, PyNone)
    ELSE InitInterpolate(snapshot, loaded,
            ConfigManager_load_dotenv(files, fs, installed, environ),
            MergeFiles(files, 1, fs, (MergedId :> EmptyMap), <<>>),
            environ)

\* ConfigManager._init(files, reload)
ConfigManager_init(files, reload, snapshot, loaded, environ, fs, installed) ==
    IF ~ reload /\ loaded /\ snapshot # PyNone
    THEN InitOutcome(snapshot, loaded, environ, "none", FALSE, PyNone)
    ELSE InitLoaded(snapshot, loaded,
            ConfigManager_load_dotenv(files, fs, installed, environ),
            MergeFiles(files, 1, fs, (MergedId :> EmptyMap), <<>>))

\* ---- the command line

CLI_KEY_CONFIG_PATH == "config.path"

\* an argument "--key=part,part,...": its key and the parts of its value
\* between the commas, stripped; an argument without "=" has no key
Arg(key, parts) == [key |-> key, parts |-> parts]

EmptyPart == Path("", "")

\* ConfigManager._parse_cli_config_paths(argv)
ConfigManager_parse_cli_config_paths(argv) ==
    LET hits == SelectSeq(argv, LAMBDA a : a.key = CLI_KEY_CONFIG_PATH)
    IN  IF hits = <<>> THEN <<>>
        ELSE SelectSeq(hits[Len(hits)].parts, LAMBDA q : q # EmptyPart)

\* ---- reading by path

KeyToken(cs) == [t |-> "key", v |-> cs]

IndexToken(n) == [t |-> "idx", v |-> n]

DigitValue(c) ==
    CASE c = "0" -> 0 [] c = "1" -> 1 [] c = "2" -> 2 [] c = "3" -> 3
      [] c = "4" -> 4 [] c = "5" -> 5 [] c = "6" -> 6 [] c = "7" -> 7
      [] c = "8" -> 8 [] c = "9" -> 9

\* int(idx_str)
RECURSIVE IntOf(_, _)
IntOf(cs, acc) ==
    IF cs = <<>> THEN acc ELSE IntOf(Tail(cs), acc * 10 + DigitValue(Head(cs)))

\* s.find("]", i)
RECURSIVE FindBracket(_, _)
FindBracket(s, i) ==
    IF i > Len(s) THEN 0
    ELSE IF s[i] = "]" THEN i
    ELSE FindBracket(s, i + 1)

\* flush() of _tokenize_path
Flush(out, buf) == IF buf # <<>> THEN Append(out, KeyToken(buf)) ELSE out

\* the loop of _tokenize_path
RECURSIVE TokenizeFrom(_, _, _, _)
TokenizeFrom(s, i, buf, out) ==
    IF i > Len(s) THEN Flush(out, buf)
    ELSE IF s[i] = "." THEN TokenizeFrom(s, i + 1, <<>>, Flush(out, buf))
    ELSE IF s[i] = "["
    THEN LET j == FindBracket(s, i + 1)
             idx_str == SubSeq(s, i + 1, j - 1)
         IN  IF j = 0 THEN <<>>
             ELSE IF idx_str = <<>>
                     \/ \E n \in 1..Len(idx_str) : idx_str[n] \notin DigitChars
             THEN <<>>
             ELSE TokenizeFrom(s, j + 1, <<>>,
                               Append(Flush(out, buf),
                                      IndexToken(IntOf(idx_str, 0))))
    ELSE TokenizeFrom(s, i + 1, Append(buf, s[i]), out)

\* ConfigManager._tokenize_path(key_path)
ConfigManager_tokenize_path(key_path) == TokenizeFrom(key_path, 1, <<>>, <<>>)

\* the loop of _get_by_path
RECURSIVE GetByTokens(_, _, _, _)
GetByTokens(cur, tokens, i, default) ==
    IF i > Len(tokens) THEN cur
    ELSE LET tk == tokens[i]
             nxt == IF tk.t = "key"
                    THEN IF cur.t = "map" /\ tk.v \in DOMAIN cur.v
                         THEN cur.v[tk.v] ELSE PyNone
                    ELSE IF cur.t = "list" /\ tk.v < Len(cur.v)
                         THEN cur.v[tk.v + 1] ELSE PyNone
         IN  IF nxt = PyNone THEN default
             ELSE GetByTokens(nxt, tokens, i + 1, default)

\* ConfigManager._get_by_path(root, key_path, default)
GetByPathTokens(root, tokens, default) ==
    IF tokens = <<>> THEN default ELSE GetByTokens(root, tokens, 1, default)

ConfigManager_get_by_path(root, key_path, default) ==
    IF root = PyNone \/ key_path = <<>> THEN default
    ELSE GetByPathTokens(root, ConfigManager_tokenize_path(key_path), default)

\* the files init() and reload() read
FilesOrDefault(cli_files) ==
    IF cli_files # <<>> THEN cli_files ELSE <<DEFAULT_PATH>>

\* init() that loads whether or not the configuration is loaded
ConfigManager_lazy_init_always(cli_files, snapshot, loaded, environ, fs, installed) ==
    ConfigManager_init(FilesOrDefault(cli_files), TRUE, snapshot, loaded,
                       environ, fs, installed)

\* ConfigManager.init(): the lazy load before a read
ConfigManager_lazy_init(cli_files, snapshot, loaded, environ, fs, installed) ==
    IF loaded /\ snapshot # PyNone
    THEN InitOutcome(snapshot, loaded, environ, "none", FALSE, PyNone)
    ELSE ConfigManager_init(FilesOrDefault(cli_files), FALSE, snapshot, loaded,
                            environ, fs, installed)

\* ---- the inputs

VarA == <<"A">>

\* "x"
StrX == PyStr(<<"x">>)

\* "y"
StrY == PyStr(<<"y">>)

\* "${A}"
StrBare == PyStr(<<"$", "{", "A", "}">>)

\* "${A:d}"
StrDefault == PyStr(<<"$", "{", "A", ":", "d", "}">>)

\* "${A:?m}"
StrRequiredA == PyStr(<<"$", "{", "A", ":", "?", "m", "}">>)

\* "${B:?m}"
StrRequiredB == PyStr(<<"$", "{", "B", ":", "?", "m", "}">>)

\* "\${A}"
StrEscaped == PyStr(<<"\\", "$", "{", "A", "}">>)

\* "${A}-${B:d}"
StrTwo == PyStr(<<"$", "{", "A", "}", "-", "$", "{", "B", ":", "d", "}">>)

\* "${A\${B}"
StrOpenThenEscaped == PyStr(<<"$", "{", "A", "\\", "$", "{", "B", "}">>)

\* a: {p: "${A:d}"}
\* b: x
DocConfig ==
    YamlDoc(Ref(1), (1 :> PyMap(Entry(KeyA, Ref(2)) @@ Entry(KeyB, StrX))
                  @@ 2 :> PyMap(Entry(KeyP, StrDefault))))

\* a: {p: "${A:d}", r: ["${A}", "\${A}"]}
\* b: "${B:?m}"
DocBase ==
    YamlDoc(Ref(1), (1 :> PyMap(Entry(KeyA, Ref(2)) @@ Entry(KeyB, StrRequiredB))
                  @@ 2 :> PyMap(Entry(KeyP, StrDefault) @@ Entry(KeyR, Ref(3)))
                  @@ 3 :> PyList(<<StrBare, StrEscaped>>)))

\* a: {p: "${A:?m}", c: 1}
\* b: "${A}-${B:d}"
DocProd ==
    YamlDoc(Ref(1), (1 :> PyMap(Entry(KeyA, Ref(2)) @@ Entry(KeyB, StrTwo))
                  @@ 2 :> PyMap(Entry(KeyP, StrRequiredA)
                                @@ Entry(KeyC, PyInt(1)))))

\* a: &x {p: "\${A}"}
\* c: *x
DocAlias ==
    YamlDoc(Ref(1), (1 :> PyMap(Entry(KeyA, Ref(2)) @@ Entry(KeyC, Ref(2)))
                  @@ 2 :> PyMap(Entry(KeyP, StrEscaped))))

\* a: ["y"]
\* b: ~
\* c: "${A\${B}"
DocTypes ==
    YamlDoc(Ref(1), (1 :> PyMap(Entry(KeyA, Ref(2)) @@ Entry(KeyB, PyNone)
                                @@ Entry(KeyC, StrOpenThenEscaped))
                  @@ 2 :> PyList(<<StrY>>)))

\* - x
DocList == YamlDoc(Ref(1), (1 :> PyList(<<StrX>>)))

\* a path no file system of the model has a file at
GhostPath == Path("/config", "ghost.yaml")

DotenvPaths == {Path("/config", DOTENV_BASE), Path("/config", DOTENV_LOCAL),
                Path(Cwd, DOTENV_BASE), Path(Cwd, DOTENV_LOCAL)}

\* a file system: what config.yaml, base.yaml and prod.yaml hold, and the
\* .env files there are
FileSystem(config, base, prod, dotenvs) ==
    (DEFAULT_PATH :> config @@ BasePath :> base @@ ProdPath :> prod)
    @@ dotenvs @@ [q \in DotenvPaths |-> NoFile]

\* A=d
DotenvD == DotenvFile(Entry(VarA, <<"d">>))

FileSystems ==
    { FileSystem(DocConfig, DocBase, DocProd, << >>),
      FileSystem(DocConfig, DocBase, DocProd,
                 (Path("/config", DOTENV_LOCAL) :> DotenvD)),
      FileSystem(BadYaml, DocAlias, DocProd,
                 (Path("/config", DOTENV_BASE) :> DotenvD)),
      FileSystem(DocList, DocBase, DocTypes,
                 (Path(Cwd, DOTENV_LOCAL) :> DotenvD)) }

\* no --config.path; --config.path=base,prod; --config.path=prod,,base;
\* --config.path=prod --verbose --config.path=ghost,base
Argvs ==
    { <<>>,
      <<Arg(CLI_KEY_CONFIG_PATH, <<BasePath, ProdPath>>)>>,
      <<Arg(CLI_KEY_CONFIG_PATH, <<ProdPath, EmptyPart, BasePath>>)>>,
      <<Arg(CLI_KEY_CONFIG_PATH, <<ProdPath>>), Arg("", <<>>),
        Arg(CLI_KEY_CONFIG_PATH, <<GhostPath, BasePath>>)>> }

\* "a.p", "a.r[1]"
ConfigKeyPaths ==
    { <<"a", ".", "p">>,
      <<"a", ".", "r", "[", "1", "]">> }

\* "b"
ContainsKeyPaths == { <<"b">> }

ConfigDefaults == { PyNone, StrY }

\* the sentinel object() of contains
Sentinel == [t |-> "sentinel", v |-> 0]

\* what os.environ holds for A when the process starts or setenv is called
EnvValues == { <<"e">> }

CmCallRec(op, arg, default, result, raised, out, files) ==
    [op |-> op, arg |-> arg, default |-> default, result |-> result,
     raised |-> raised, didLoad |-> out.didLoad, merged |-> out.merged,
     files |-> IF out.didLoad THEN files ELSE <<>>]

NoLoad == InitOutcome(PyNone, FALSE, << >>, "none", FALSE, PyNone)

InitCM ==
    /\ cmSnapshot = PyNone
    /\ cmLoaded = FALSE
    /\ cmCliFiles = <<>>
    /\ osEnviron = << >>
    /\ cmFs \in {FileSystem(DocConfig, DocBase, DocProd, << >>)}
    /\ cmCall = CmCallRec("none", <<>>, PyNone, PyNone, "none", NoLoad, <<>>)

\* whether python-dotenv can be imported is asked only when files are loaded
InstalledAsked(out, installed) == out.didLoad \/ installed

\* the class state and os.environ after a call that went through _init
CmAfter(out) ==
    /\ cmSnapshot' = out.snapshot
    /\ cmLoaded' = out.loaded
    /\ osEnviron' = out.environ

\* the files run(argv) reads
RunFiles(parsed) == IF parsed = <<>> THEN <<DEFAULT_PATH>> ELSE parsed

\* ConfigManager.run(argv)
CmRun(argv, installed) ==
    \E files \in {RunFiles(ConfigManager_parse_cli_config_paths(argv))} :
    \E out \in {ConfigManager_init(files, TRUE, cmSnapshot, cmLoaded, osEnviron,
                                   cmFs, installed)} :
        /\ cmCliFiles' = files
        /\ CmAfter(out)
        /\ cmCall' = CmCallRec("run", argv, PyNone, PyNone, out.raised, out,
                               files)
        /\ UNCHANGED cmFs
        /\ UNCHANGED notCmVars

\* ConfigManager.reload()
CmReload(installed) ==
    \E out \in {ConfigManager_init(FilesOrDefault(cmCliFiles), TRUE, cmSnapshot,
                                   cmLoaded, osEnviron, cmFs, installed)} :
        /\ CmAfter(out)
        /\ cmCall' = CmCallRec("reload", <<>>, PyNone, PyNone, out.raised, out,
                               FilesOrDefault(cmCliFiles))
        /\ UNCHANGED <<cmCliFiles, cmFs>>
        /\ UNCHANGED notCmVars

\* a read: cls.init(), then result is returned unless init() raised
CmRead(op, arg, default, out, result) ==
    /\ CmAfter(out)
    /\ cmCall' = CmCallRec(op, arg, default,
                           IF out.raised # "none" THEN PyNone ELSE result,
                           out.raised, out, FilesOrDefault(cmCliFiles))
    /\ UNCHANGED <<cmCliFiles, cmFs>>
    /\ UNCHANGED notCmVars

\* ConfigManager.get(key_path, default), after init() returned
ConfigManager_get(snapshot, key_path, default) ==
    IF snapshot = PyNone THEN default
    ELSE ConfigManager_get_by_path(snapshot.data, key_path, default)

CmGet(key_path, default, installed) ==
    \E out \in {ConfigManager_lazy_init(cmCliFiles, cmSnapshot, cmLoaded,
                                        osEnviron, cmFs, installed)} :
        /\ InstalledAsked(out, installed)
        /\ CmRead("get", key_path, default, out,
                  ConfigManager_get(out.snapshot, key_path, default))

\* ConfigManager.contains(key_path)
CmContains(key_path, installed) ==
    \E out \in {ConfigManager_lazy_init(cmCliFiles, cmSnapshot, cmLoaded,
                                        osEnviron, cmFs, installed)} :
        /\ InstalledAsked(out, installed)
        /\ CmRead("contains", key_path, PyNone, out,
                  PyBool(ConfigManager_get(out.snapshot, key_path, Sentinel)
                         # Sentinel))

\* ConfigManager.get_all()
CmGetAll(installed) ==
    \E out \in {ConfigManager_lazy_init(cmCliFiles, cmSnapshot, cmLoaded,
                                        osEnviron, cmFs, installed)} :
        /\ InstalledAsked(out, installed)
        /\ CmRead("get_all", <<>>, PyNone, out,
                  IF out.snapshot = PyNone THEN EmptyMap
                  ELSE out.snapshot.data)

\* ConfigManager.loaded_files()
CmLoadedFiles(installed) ==
    \E out \in {ConfigManager_lazy_init(cmCliFiles, cmSnapshot, cmLoaded,
                                        osEnviron, cmFs, installed)} :
        /\ InstalledAsked(out, installed)
        /\ CmRead("loaded_files", <<>>, PyNone, out,
                  PyList(IF out.snapshot = PyNone THEN <<>>
                         ELSE out.snapshot.files))

\* the files on disk are edited
CmFilesChange(fs) ==
    /\ fs # cmFs
    /\ cmFs' = fs
    /\ cmCall' = CmCallRec("files", <<>>, PyNone, PyNone, "none", NoLoad, <<>>)
    /\ UNCHANGED <<cmSnapshot, cmLoaded, cmCliFiles, osEnviron>>
    /\ UNCHANGED notCmVars

\* os.environ["A"] = val
CmSetEnv(val) ==
    /\ osEnviron' = Entry(VarA, val) @@ osEnviron
    /\ osEnviron' # osEnviron
    /\ cmCall' = CmCallRec("setenv", <<>>, PyNone, PyNone, "none", NoLoad, <<>>)
    /\ UNCHANGED <<cmSnapshot, cmLoaded, cmCliFiles, cmFs>>
    /\ UNCHANGED notCmVars

\* del os.environ["A"]
CmUnsetEnv ==
    /\ VarA \in DOMAIN osEnviron
    /\ osEnviron' = [x \in DOMAIN osEnviron \ {VarA} |-> osEnviron[x]]
    /\ cmCall' = CmCallRec("unsetenv", <<>>, PyNone, PyNone, "none", NoLoad, <<>>)
    /\ UNCHANGED <<cmSnapshot, cmLoaded, cmCliFiles, cmFs>>
    /\ UNCHANGED notCmVars

NextCM ==
    \/ \E argv \in Argvs, installed \in BOOLEAN : CmRun(argv, installed)
    \/ \E installed \in BOOLEAN : CmReload(installed)
    \/ \E k \in ConfigKeyPaths, d \in ConfigDefaults, installed \in BOOLEAN :
          CmGet(k, d, installed)
    \/ \E k \in ContainsKeyPaths, installed \in BOOLEAN :
          CmContains(k, installed)
    \/ \E installed \in BOOLEAN : CmGetAll(installed)
    \/ \E installed \in BOOLEAN : CmLoadedFiles(installed)
    \/ \E fs \in FileSystems : CmFilesChange(fs)
    \/ \E val \in EnvValues : CmSetEnv(val)
    \/ CmUnsetEnv

\* ======================================================================
\* Specifications
\* ======================================================================

Init ==
    /\ InitSession
    /\ InitDB
    /\ InitAF
    /\ InitCF
    /\ InitXC
    /\ InitXF
    /\ InitCM

Next ==
    \/ NextSession
    \/ NextDB
    \/ NextAF
    \/ NextCF
    \/ NextXC
    \/ NextXF
    \/ NextCM

Spec == Init /\ [][Next]_vars

SpecSession == Init /\ [][NextSession]_vars

SpecDB == Init /\ [][NextDB]_vars

SpecAF == Init /\ [][NextAF]_vars

SpecCF == Init /\ [][NextCF]_vars

SpecXC == Init /\ [][NextXC]_vars

SpecXF == Init /\ [][NextXF]_vars

SpecCM == Init /\ [][NextCM]_vars

\* the two factories are separate classes with separate registries: a run
\* that uses one of them
NextFactories ==
    \/ InitAF /\ NextDB
    \/ InitDB /\ NextAF

SpecFactories == Init /\ [][NextFactories]_vars

\* ======================================================================
\* Claims
\* ======================================================================

\* ---- C1 ---------------------------------------------------------------

CountOf(log, c) == Cardinality({i \in 1..Len(log) : log[i] = c})

\* C1: when the with-body finishes normally the session is committed and
\* then closed; when the body or the commit raises an Exception the session
\* is rolled back, that same exception propagates and the session is then
\* closed; on every path close is called exactly once and is the last call,
\* and commit is never called after the body raised.
C1_SessionCommitRollbackClose ==
    sessPc = "done" =>
        /\ CountOf(sessLog, "close") = 1
        /\ sessLog[Len(sessLog)] = "close"
        /\ (sessThrown # NoExc => CountOf(sessLog, "commit") = 0)
        /\ (sessThrown = NoExc /\ sessCommit = NoExc =>
                /\ sessOut = NoExc
                /\ Len(sessLog) >= 2
                /\ sessLog[Len(sessLog) - 1] = "commit"
                /\ CountOf(sessLog, "rollback") = 0)
        /\ (IsException(sessThrown) =>
                /\ sessOut = sessThrown
                /\ Len(sessLog) >= 2
                /\ sessLog[Len(sessLog) - 1] = "rollback"
                /\ CountOf(sessLog, "rollback") = 1)
        /\ (sessThrown = NoExc /\ IsException(sessCommit) =>
                /\ sessOut = sessCommit
                /\ Len(sessLog) >= 3
                /\ sessLog[Len(sessLog) - 2] = "commit"
                /\ sessLog[Len(sessLog) - 1] = "rollback"
                /\ CountOf(sessLog, "rollback") = 1)

\* a with-body that used the session and then raised an Exception, rolled
\* back and closed
C1_Witness ==
    /\ sessPc = "done"
    /\ IsException(sessThrown)
    /\ Len(sessLog) = MaxBodyOps + 2
    /\ sessLog[Len(sessLog) - 1] = "rollback"

\* ---- C2 ---------------------------------------------------------------

DbGets == {"get_sync_db", "get_async_db"}

WantOf(op) == IF op = "get_sync_db" THEN "sync" ELSE "async"

\* the manager of the kind the last get asked for, as the registry has it
\* now (NoManager if there is none)
Requested ==
    IF dbCall.key \in DOMAIN dbBundles
    THEN PartOf(dbBundles[dbCall.key], WantOf(dbCall.op))
    ELSE NoManager

\* C2: a listener is not invoked when it is injected; it is invoked only
\* inside get_sync_db / get_async_db, only when the requested key is absent
\* from the registry, with the requested key as argument, at most once per
\* get and before the lookup: if it registered the requested manager, the
\* same get returns that manager.  A get for a registered key invokes no
\* listener.
C2_LazyListener ==
    [][ /\ (dbCall'.op \notin DbGets => dbCall'.invoked = <<>>)
        /\ Len(dbCall'.invoked) <= 1
        /\ (dbCall'.invoked # <<>> =>
                /\ dbCall'.key \notin DOMAIN dbBundles
                /\ dbCall'.invoked[1].arg = dbCall'.key
                /\ dbCall'.invoked[1].listener \in {mainListener, slaveListener})
        /\ (/\ dbCall'.op \in DbGets
            /\ dbCall'.invoked # <<>>
            /\ dbCall'.raised # "ListenerError"
            /\ Requested' # NoManager
            => /\ dbCall'.raised = "none"
               /\ dbCall'.result = Requested')
      ]_vars

\* a get_sync_db for an absent key invoked the listener, which registered
\* the manager the call returned
C2_Witness ==
    /\ dbCall.op = "get_sync_db"
    /\ dbCall.invoked # <<>>
    /\ dbCall.result # NoManager
    /\ dbCall.result.write = ListenerWrite

\* ---- C3 ---------------------------------------------------------------

\* C3: register with overwrite=False never replaces a registered manager:
\* a sync (async) manager a key has before the call is the one it has after
\* it, and a later get returns that object; with overwrite=True a register
\* that succeeds stores a new manager built from the supplied pair.
C3_RegisterOverwrite ==
    [][ /\ (dbCall'.op = "register" /\ ~ dbCall'.flag =>
              \A k \in DOMAIN dbBundles :
                  /\ k \in DOMAIN dbBundles'
                  /\ (dbBundles[k].sync # NoManager =>
                          dbBundles'[k].sync = dbBundles[k].sync)
                  /\ (dbBundles[k].async_ # NoManager =>
                          dbBundles'[k].async_ = dbBundles[k].async_))
        /\ (dbCall'.op \in DbGets /\ dbCall'.key \in DOMAIN dbBundles =>
              /\ dbBundles' = dbBundles
              /\ dbCall'.result =
                    PartOf(dbBundles[dbCall'.key], WantOf(dbCall'.op)))
        /\ (dbCall'.op = "register" /\ dbCall'.flag /\ dbCall'.raised = "none" =>
              LET k    == dbCall'.key
                  old  == IF k \in DOMAIN dbBundles THEN dbBundles[k]
                          ELSE EmptyBundle
                  args == dbCall'.args
              IN  /\ k \in DOMAIN dbBundles'
                  /\ (args[1] # None =>
                        /\ dbBundles'[k].sync.write = args[1]
                        /\ dbBundles'[k].sync.read = args[2]
                        /\ dbBundles'[k].sync # old.sync)
                  /\ (args[3] # None =>
                        /\ dbBundles'[k].async_.write = args[3]
                        /\ dbBundles'[k].async_.read = args[4]
                        /\ dbBundles'[k].async_ # old.async_))
      ]_vars

\* XDBFactory.register(key, w2, r1, overwrite=False) returned normally and the key
\* still has the manager the listener had registered
C3_Witness ==
    /\ dbCall.op = "register"
    /\ ~ dbCall.flag
    /\ dbCall.raised = "none"
    /\ dbCall.args[1] \in WriteConnects
    /\ dbCall.args[2] \in ReadConnects
    /\ dbCall.key \in DOMAIN dbBundles
    /\ dbBundles[dbCall.key].sync.write = ListenerWrite

\* ---- C4 ---------------------------------------------------------------

\* the registries a listener invoked with key k can leave behind
AfterListener(b, k) ==
    {run_listener(b, k, beh).bundles : beh \in ListenerBehaviours}

\* C4: when, after any listener has run, no manager of the requested kind
\* exists for the key, get_sync_db / get_async_db / get_db raise ValueError
\* if required and return None if not; the lookup itself leaves the registry
\* as it is (as the listener, if one ran, left it).
C4_MissingManager ==
    [][ /\ (dbCall'.op \in DbGets /\ dbCall'.raised # "ListenerError"
              /\ Requested' = NoManager =>
                /\ dbCall'.result = NoManager
                /\ dbCall'.raised = IF dbCall'.flag THEN "ValueError" ELSE "none")
        /\ (dbCall'.op \in DbGets /\ dbCall'.invoked = <<>> =>
                dbBundles' = dbBundles)
        /\ (dbCall'.op \in DbGets /\ dbCall'.invoked # <<>> =>
                dbBundles' \in AfterListener(dbBundles, dbCall'.key))
        /\ \A t \in Threads :
              afPc[t] = "g_lookup" /\ afPc'[t] = "done" =>
                /\ afBundles' = afBundles
                /\ (afCall[t].key \notin DOMAIN afBundles =>
                      /\ afCall'[t].result = NoManager
                      /\ afCall'[t].raised =
                            IF afCall[t].flag THEN "ValueError" ELSE "none")
      ]_vars

\* get_async_db(key, required=False) invoked a listener that registered no
\* async manager, and returned None
C4_Witness ==
    /\ dbCall.op = "get_async_db"
    /\ dbCall.invoked # <<>>
    /\ ~ dbCall.flag
    /\ Requested = NoManager
    /\ dbCall.raised = "none"
    /\ dbCall.result = NoManager

\* ---- C5 ---------------------------------------------------------------

\* the places of a call where its thread is inside a with-block on the lock
AfInsideLock == {"g_check", "g_lookup", "l_store", "r_store"}

\* the places where a thread waits to enter a with-block
AfWaiting == {"g_lock1", "g_lock2", "r_lock"}

\* C5: get_db does not hold the factory lock while its listener runs; the
\* lock is held only inside the two with-blocks (and inside register) and
\* is released on every path, also when the listener raises; so while a
\* listener is in progress a thread that wants the lock is never kept out
\* by the thread of that listener.
C5_NoLockWhileListener ==
    \A t \in Threads :
        /\ (afPc[t] = "g_listener" => afLock.owner # t)
        /\ (afPc[t] \notin AfInsideLock => afLock.owner # t)
        /\ (afLock.owner = t => afLock.depth = 1)
        /\ (afPc[t] = "g_listener" =>
              \A u \in Threads \ {t} :
                  afPc[u] \in AfWaiting =>
                      \/ CanAcquire(afLock, u)
                      \/ /\ afLock.owner \in Threads \ {t, u}
                         /\ afPc[afLock.owner] \in AfInsideLock)

\* while the listener of one thread's get_db is in progress, another thread
\* is inside register, holding the lock
C5_Witness ==
    \E t, u \in Threads :
        /\ t # u
        /\ afPc[t] = "g_listener"
        /\ afPc[u] = "r_store"
        /\ afLock.owner = u

\* ---- C6 ---------------------------------------------------------------

\* C6: create for a registered name returns the existing instance and
\* leaves the registry as it is (the new parameters are ignored); every
\* create or get of a name between two deletes of the name returns one and
\* the same instance (the registry, a dict, holds one instance per name).
C6_CreateIsIdempotent ==
    [][ /\ (cfCall'.op = "create" /\ cfCall'.name \in DOMAIN cfInstances =>
                /\ cfCall'.raised = "none"
                /\ cfCall'.result = cfInstances[cfCall'.name]
                /\ cfInstances' = cfInstances)
        /\ \A n \in CacheNames :
                /\ Cardinality(cfHanded'[n]) <= 1
                /\ (n \in DOMAIN cfInstances' =>
                        cfHanded'[n] \subseteq {cfInstances'[n].id})
      ]_vars

\* XCacheFactory.create(name, host) for a registered name returned the instance that was
\* built with another host
C6_Witness ==
    /\ cfCall.op = "create"
    /\ cfCall.result # NoInstance
    /\ cfCall.result.host # cfCall.host
    /\ cfCall.result.id < cfCreated

\* ---- C7 ---------------------------------------------------------------

\* C7: XCacheFactory.get(name) for a name that is not registered creates, registers and
\* returns an instance built from the redis.* environment settings if the
\* name is "default", and otherwise raises ValueError and leaves the
\* registry as it is; a registered name is returned as registered, and
\* delete unregisters the name, so that get raises after it until create.
C7_GetUnregistered ==
    [][ /\ (cfCall'.op = "get" /\ cfCall'.name \notin DOMAIN cfInstances =>
              IF cfCall'.name = "default"
              THEN /\ cfCall'.raised = "none"
                   /\ cfCall'.result.id = cfCreated + 1
                   /\ cfCall'.result.host = getenv_host(cfEnvHost)
                   /\ cfInstances' = Put(cfInstances, "default", cfCall'.result)
              ELSE /\ cfCall'.raised = "ValueError"
                   /\ cfInstances' = cfInstances)
        /\ (cfCall'.op = "get" /\ cfCall'.name \in DOMAIN cfInstances =>
              /\ cfCall'.raised = "none"
              /\ cfCall'.result = cfInstances[cfCall'.name]
              /\ cfInstances' = cfInstances)
        /\ (cfCall'.op = "delete" =>
              /\ cfCall'.name \notin DOMAIN cfInstances'
              /\ \A n \in DOMAIN cfInstances \ {cfCall'.name} :
                    n \in DOMAIN cfInstances' /\ cfInstances'[n] = cfInstances[n])
      ]_vars

\* get of a name other than "default" raised ValueError after instances had
\* been created
C7_Witness ==
    /\ cfCall.op = "get"
    /\ cfCall.name # "default"
    /\ cfCall.raised = "ValueError"
    /\ cfCreated > 0

\* ---- C8 ---------------------------------------------------------------

\* the last call was a get that reached the server, which had the key
GetFoundKey ==
    /\ xcCall.op = "get"
    /\ xcCall.ping = "ok"
    /\ xcCall.io = "ok"
    /\ xcCall.key \in DOMAIN rdStore

\* C8: get never raises; it returns default when the client cannot be
\* initialised, when the key does not exist and when reading, deserialising
\* or constructing cls fails, and otherwise the stored value (as an instance
\* of cls when cls is given and the value is a dict).
C8_GetNeverRaises ==
    xcCall.op = "get" =>
        /\ xcCall.raised = "none"
        /\ (~ GetFoundKey => xcCall.result = xcCall.default)
        /\ (GetFoundKey =>
              LET stored == unpackb(rdStore[xcCall.key].data)
              IN  IF ~ stored.ok THEN xcCall.result = xcCall.default
                  ELSE IF xcCall.cls = None \/ stored.val.t # "dict"
                  THEN xcCall.result = stored.val
                  ELSE IF xcCall.ctor
                  THEN xcCall.result = PyObj(stored.val.v)
                  ELSE xcCall.result = xcCall.default)

\* a get found bytes it could not deserialise and returned the default the
\* caller gave
C8_Witness ==
    /\ GetFoundKey
    /\ ~ unpackb(rdStore[xcCall.key].data).ok
    /\ xcCall.default = PyStr("dflt")
    /\ xcCall.result = PyStr("dflt")
    /\ xcCall.raised = "none"

\* ---- C9 ---------------------------------------------------------------

\* C9: after set(key, v) succeeded for a plain serialisable value v, and
\* before the key expires, is deleted or is overwritten, get(key) returns a
\* value equal to v (the later value after a later set; a set on another
\* key changes nothing).
C9_SetGetRoundTrip ==
    /\ GetFoundKey
    /\ xcCall.cls = None
    /\ xcCall.key \in DOMAIN xcLastSet
    /\ xcLastSet[xcCall.key] \in PlainValues
    => xcCall.result = xcLastSet[xcCall.key]

\* the round trip of C9 for the plain values other than dicts with keys that
\* are not strings
C9_RoundTripStrKeys ==
    /\ GetFoundKey
    /\ xcCall.cls = None
    /\ xcCall.key \in DOMAIN xcLastSet
    /\ xcLastSet[xcCall.key] \in PlainValues \ {DictIntKeys}
    => xcCall.result = xcLastSet[xcCall.key]

\* ---- C10 --------------------------------------------------------------

\* C10: delete(key) returns the number of keys deleted, or None if an error
\* occurs, be it that the client cannot be initialised or that the Redis
\* call fails.
C10_DeleteResult ==
    [][ xcCall'.op = "delete" =>
          /\ xcCall'.raised = "none"
          /\ xcCall'.result =
                IF xcCall'.ping = "ok" /\ xcCall'.io = "ok"
                THEN PyInt(IF xcCall'.key \in DOMAIN rdStore THEN 1 ELSE 0)
                ELSE PyNone
      ]_vars

\* ---- C11 --------------------------------------------------------------

\* C11: every key written through set carries a finite time to live: after
\* a set that succeeded, also one called with expire=None, the key is stored
\* with an expiry.
C11_SetCarriesTTL ==
    /\ xcCall.op = "set"
    /\ xcCall.result = PyBool(TRUE)
    => /\ xcCall.key \in DOMAIN rdStore
       /\ rdStore[xcCall.key].px # PyNone

\* ---- C17 --------------------------------------------------------------

\* C17: after a call whose connection attempt failed (the ping raised
\* ConnectionError) the instance remains uninitialised: its client is still
\* unset, so that the next call pings again.
C17_FailedConnectLeavesUnset ==
    xcCall.op \in {"set", "get", "delete"} /\ xcCall.ping = "ConnectionError"
    => xcClient = None

\* ---- C16 --------------------------------------------------------------

\* whether the dotted path leads to a value in the mapping config, and the
\* value it leads to (PyNone: no value)
RECURSIVE LookUp(_, _, _)
LookUp(value, keys, i) ==
    IF i > Len(keys) THEN value
    ELSE IF value.t # "map" THEN PyNone
    ELSE IF keys[i] \notin DOMAIN value.v THEN PyNone
    ELSE LookUp(value.v[keys[i]], keys, i + 1)

\* C16: get(key_path, default) returns the value the path has in the
\* environment configuration, else the value it has in the default
\* configuration, and default only when it has a value in neither; for
\* every default, also one that is not None.  Stated for the calls that
\* return.
C16_EnvThenDefaultConfig ==
    xfCall.op = "get" /\ xfData # PyNone /\ xfCall.raised = "none" =>
        LET keys == split_dots(xfCall.key_path)
            inEnv == LookUp(xfData, keys, 1)
            inDflt == LookUp(xfDefault, keys, 1)
        IN  xfCall.result = IF inEnv # PyNone THEN inEnv
                            ELSE IF inDflt # PyNone THEN inDflt
                            ELSE xfCall.default

\* the fallback of C16 for the default None, where the path crosses
\* mappings only
C16_FallbackWithNoneDefault ==
    /\ xfCall.op = "get"
    /\ xfData # PyNone
    /\ xfCall.default = PyNone
    /\ xfCall.raised = "none"
    => LET keys == split_dots(xfCall.key_path)
           inEnv == LookUp(xfData, keys, 1)
           inDflt == LookUp(xfDefault, keys, 1)
       IN  xfCall.result = IF inEnv # PyNone THEN inEnv ELSE inDflt

\* ---- C12 --------------------------------------------------------------

\* what a YAML file says, as a value without references (PyNone: the file
\* is missing or is no YAML)
DocTree(file) ==
    IF file = NoFile \/ file = BadYaml THEN PyNone
    ELSE IF file.root = PyNone THEN EmptyMap
    ELSE TreeOf(file.objs, file.root)

\* the overlay of the value inc on the value base: mappings are merged key
\* by key, anything else replaces the earlier value
RECURSIVE Overlay(_, _)
Overlay(base, inc) ==
    IF base.t = "map" /\ inc.t = "map"
    THEN PyMap([k \in DOMAIN base.v \cup DOMAIN inc.v |->
                   IF k \notin DOMAIN inc.v THEN base.v[k]
                   ELSE IF k \notin DOMAIN base.v THEN inc.v[k]
                   ELSE Overlay(base.v[k], inc.v[k])])
    ELSE inc

\* the overlay of the files from position i on over acc, the files that
\* are missing, unparsable or no mapping being skipped
RECURSIVE OverlayFiles(_, _, _, _)
OverlayFiles(files, i, fs, acc) ==
    IF i > Len(files) THEN acc
    ELSE OverlayFiles(files, i + 1, fs,
                      IF DocTree(FileAt(fs, files[i])).t = "map"
                      THEN Overlay(acc, DocTree(FileAt(fs, files[i])))
                      ELSE acc)

\* C12: a load merges the YAML files in list order so that, for every key
\* path, the merged configuration holds the value of the last file that
\* defines it: mappings are merged key by key, any other value replaces the
\* earlier one, and a file that is missing, unparsable or no mapping
\* contributes nothing.
C12_OverlayInListOrder ==
    cmCall.didLoad =>
        cmCall.merged = OverlayFiles(cmCall.files, 1, cmFs, EmptyMap)

\* whether a mapping or a sequence of the document is referenced twice (an
\* anchor with an alias)
HasAlias(file) ==
    /\ file # NoFile
    /\ file # BadYaml
    /\ \E n \in DOMAIN file.objs :
          Cardinality(UNION {{<<m, k>> : k \in {x \in DOMAIN file.objs[m].v :
                                                  file.objs[m].v[x] = Ref(n)}}
                             : m \in DOMAIN file.objs}) > 1

\* the overlay of C12 for the files that use no alias
C12_OverlayWithoutAliases ==
    /\ cmCall.didLoad
    /\ \A i \in 1..Len(cmCall.files) : ~ HasAlias(FileAt(cmFs, cmCall.files[i]))
    => cmCall.merged = OverlayFiles(cmCall.files, 1, cmFs, EmptyMap)

\* ---- C13 --------------------------------------------------------------

\* what a placeholder stands for: the value of the variable if it is set,
\* else the default of ${VAR:default}, the empty string for a bare ${VAR},
\* and a failure for ${VAR:?msg}
Resolved(name, spec, environ) ==
    IF name \in DOMAIN environ
    THEN [out |-> environ[name], raised |-> "none"]
    ELSE IF spec = <<>> THEN [out |-> <<>>, raised |-> "none"]
    ELSE IF Len(spec) >= 2 /\ spec[2] = "?"
    THEN [out |-> <<>>, raised |-> "ConfigError"]
    ELSE [out |-> SubSeq(spec, 2, Len(spec)), raised |-> "none"]

\* the string s from index i on with every placeholder resolved on its own
\* and every escaped \${ kept as the text ${
RECURSIVE ResolvedFrom(_, _, _)

ResolvedPlaceholder(s, environ, m, r) ==
    IF r.raised # "none" THEN r
    ELSE Prepend(r.out, ResolvedFrom(s, m.end + 1, environ))

ResolvedAt(s, i, environ, m) ==
    IF m.ok
    THEN ResolvedPlaceholder(s, environ, m, Resolved(m.name, m.spec, environ))
    ELSE Prepend(<<s[i]>>, ResolvedFrom(s, i + 1, environ))

ResolvedFrom(s, i, environ) ==
    IF i > Len(s) THEN [out |-> <<>>, raised |-> "none"]
    ELSE IF OccursAt(s, EscapedOpen, i)
    THEN Prepend(DollarBrace,
                 ResolvedFrom(s, i + Len(EscapedOpen), environ))
    ELSE ResolvedAt(s, i, environ, ENV_PATTERN_match(s, i))

\* whether some string of the value, at any depth, has a required
\* placeholder whose variable is not set
RECURSIVE NeedsMissing(_, _)
NeedsMissing(value, environ) ==
    IF value.t = "map"
    THEN \E k \in DOMAIN value.v : NeedsMissing(value.v[k], environ)
    ELSE IF value.t = "list"
    THEN \E i \in 1..Len(value.v) : NeedsMissing(value.v[i], environ)
    ELSE /\ value.t = "str"
         /\ ResolvedFrom(value.v, 1, environ).raised # "none"

\* the value with every string of it, at any depth, resolved
RECURSIVE ResolvedTree(_, _)
ResolvedTree(value, environ) ==
    IF value.t = "map"
    THEN PyMap([k \in DOMAIN value.v |-> ResolvedTree(value.v[k], environ)])
    ELSE IF value.t = "list"
    THEN PyList([i \in 1..Len(value.v) |->
                    ResolvedTree(value.v[i], environ)])
    ELSE IF value.t = "str"
    THEN PyStr(ResolvedFrom(value.v, 1, environ).out)
    ELSE value

\* C13: a load resolves every placeholder of every string of the merged
\* configuration, at any depth: a set variable gives its value, an unset
\* one the default of ${VAR:default}, the empty string for ${VAR} and
\* ConfigError for ${VAR:?msg}; the placeholders of one string are resolved
\* independently and an escaped \${X} stays the text ${X}.
C13_PlaceholdersResolved ==
    cmCall.didLoad =>
        IF NeedsMissing(cmCall.merged, osEnviron)
        THEN cmCall.raised = "ConfigError"
        ELSE /\ cmCall.raised = "none"
             /\ cmSnapshot.data = ResolvedTree(cmCall.merged, osEnviron)

\* whether some string of the value has an escaped \${ behind a ${ and a
\* name that no } closes
RECURSIVE HasEscapeInName(_)
HasEscapeInName(value) ==
    IF value.t = "map"
    THEN \E k \in DOMAIN value.v : HasEscapeInName(value.v[k])
    ELSE IF value.t = "list"
    THEN \E i \in 1..Len(value.v) : HasEscapeInName(value.v[i])
    ELSE /\ value.t = "str"
         /\ \E i \in 1..Len(value.v) :
               /\ OccursAt(value.v, DollarBrace, i)
               /\ i + 2 <= Len(value.v)
               /\ value.v[i + 2] \in NameStartChars
               /\ OccursAt(value.v, EscapedOpen, NameEnd(value.v, i + 2) + 1)

\* the resolution of C13 for the files that use no alias and the strings
\* that have no escape inside a placeholder's name
C13_ResolvedWithoutAliases ==
    /\ cmCall.didLoad
    /\ \A i \in 1..Len(cmCall.files) : ~ HasAlias(FileAt(cmFs, cmCall.files[i]))
    /\ ~ HasEscapeInName(cmCall.merged)
    => IF NeedsMissing(cmCall.merged, osEnviron)
       THEN cmCall.raised = "ConfigError"
       ELSE /\ cmCall.raised = "none"
            /\ cmSnapshot.data = ResolvedTree(cmCall.merged, osEnviron)

\* ---- C14 --------------------------------------------------------------

\* os.environ after every .env file that _load_dotenv finds was loaded
DotenvEnviron(files, fs, environ) ==
    ConfigManager_load_dotenv(files, fs, TRUE, environ).environ

\* no file of the load uses an alias and no string of the merged
\* configuration has an escape inside a placeholder's name
PlainLoad(call, fs) ==
    /\ \A i \in 1..Len(call.files) : ~ HasAlias(FileAt(fs, call.files[i]))
    /\ ~ HasEscapeInName(call.merged)

\* C14: on every load the .env files are put into the environment first,
\* then the YAML files are merged, and only then is the merged result
\* interpolated: the load raises ConfigError exactly when the merged
\* configuration has a required placeholder whose variable is unset in the
\* environment as it is after the .env files (a required placeholder of a
\* value that a later file overrides never raises), and the strings of the
\* snapshot are resolved against that environment.
C14_DotenvMergeInterpolate ==
    [][ cmCall'.didLoad =>
          /\ osEnviron' \in {osEnviron,
                             DotenvEnviron(cmCall'.files, cmFs, osEnviron)}
          /\ (cmCall'.raised = "none" /\ cmSnapshot'.dotenv_files # <<>> =>
                osEnviron' = DotenvEnviron(cmCall'.files, cmFs, osEnviron))
          /\ (cmCall'.raised = "ConfigError"
                <=> NeedsMissing(cmCall'.merged, osEnviron'))
          /\ (cmCall'.raised = "none" /\ PlainLoad(cmCall', cmFs) =>
                cmSnapshot'.data = ResolvedTree(cmCall'.merged, osEnviron'))
      ]_vars

\* a run of base.yaml and prod.yaml that succeeded although base.yaml has a
\* required placeholder of an unset variable, prod.yaml overriding it, and
\* whose required ${A:?m} got the value a .env file gave A
C14_Witness ==
    /\ cmCall.op = "run"
    /\ cmCall.didLoad
    /\ cmCall.raised = "none"
    /\ cmCall.files = <<BasePath, ProdPath>>
    /\ NeedsMissing(DocTree(FileAt(cmFs, BasePath)), osEnviron)
    /\ cmSnapshot.dotenv_files # <<>>
    /\ VarA \in DOMAIN osEnviron
    /\ osEnviron[VarA] = DotenvD.v[VarA]
    /\ cmCall.merged.v[KeyA].t = "map"
    /\ cmCall.merged.v[KeyA].v[KeyP] = StrRequiredA
    /\ cmSnapshot.data.v[KeyA].v[KeyP] = PyStr(DotenvD.v[VarA])

\* ---- C15 --------------------------------------------------------------

ReadOps == {"get", "contains", "get_all", "loaded_files"}

LoadOps == {"run", "reload"}

\* the files of the list that _init merges, as they are on disk
MergedFiles(files, fs) ==
    SelectSeq(files, LAMBDA f : DocTree(FileAt(fs, f)).t = "map")

\* C15: a read call made while no configuration is loaded loads it, from
\* the files of the last run() or else from /config/config.yaml; a read
\* call made after a load succeeded does not load, leaves the snapshot and
\* the environment as they are and answers from that snapshot.  The
\* snapshot is replaced only by run(), by reload() and by that first
\* loading read, and a run() or reload() that returns has built a new
\* snapshot from the files as they are on disk now.
C15_LazyInitThenFrozen ==
    [][ /\ (cmCall'.op \in ReadOps /\ cmLoaded /\ cmSnapshot # PyNone =>
              /\ ~ cmCall'.didLoad
              /\ cmSnapshot' = cmSnapshot
              /\ osEnviron' = osEnviron
              /\ (cmCall'.op = "get" =>
                    cmCall'.result = ConfigManager_get_by_path(
                        cmSnapshot.data, cmCall'.arg, cmCall'.default)))
        /\ (cmCall'.op \in ReadOps /\ ~ cmLoaded =>
              /\ cmCall'.didLoad
              /\ cmCall'.files = (IF cmCliFiles # <<>> THEN cmCliFiles
                                  ELSE <<DEFAULT_PATH>>)
              /\ (cmCall'.raised = "none" => cmLoaded' /\ cmSnapshot' # PyNone))
        /\ (cmSnapshot' # cmSnapshot =>
              \/ cmCall'.op \in LoadOps
              \/ cmCall'.op \in ReadOps /\ ~ cmLoaded)
        /\ (cmCall'.op \in LoadOps =>
              /\ cmCall'.didLoad
              /\ (cmCall'.raised = "none" =>
                    /\ cmLoaded'
                    /\ cmSnapshot'.files = MergedFiles(cmCall'.files, cmFs)
                    /\ (PlainLoad(cmCall', cmFs) =>
                          cmSnapshot'.data =
                              ResolvedTree(OverlayFiles(cmCall'.files, 1, cmFs,
                                                        EmptyMap),
                                           osEnviron'))))
      ]_vars

\* a get that answered with a value of the snapshot loaded before, without
\* loading, although the files on disk now give another configuration
C15_Witness ==
    /\ cmCall.op = "get"
    /\ ~ cmCall.didLoad
    /\ cmLoaded
    /\ cmSnapshot # PyNone
    /\ cmCall.result # cmCall.default
    /\ cmCall.result = ConfigManager_get_by_path(cmSnapshot.data, cmCall.arg,
                                                 cmCall.default)
    /\ cmSnapshot.files # MergedFiles(cmSnapshot.files, cmFs)

====
